---- MODULE Spec2Model ----
(***************************************************************************)
(* cypress-ntlm-auth: the connection-context manager                       *)
(* (src/src/proxy/connection.context.manager.ts) and the request pipeline  *)
(* that drives the NTLM handshake on the contexts it hands out.            *)
(***************************************************************************)
EXTENDS Integers, FiniteSets, Sequences, TLC

(* ------------------------------------------------------------------ *)
(* Universe                                                            *)
(* ------------------------------------------------------------------ *)

\* Downstream (client) sockets accepted by the proxy listener.
Sockets == {"s1", "s2"}

\* remoteAddress:remotePort strings a downstream socket can carry.
Addrs == {"a1", "a2"}

\* Upstream origins: one that demands NTLM, and one that demands it only
\* where both origins are NTLM servers (ntlmOrigins).
Hosts == {"ntlmhost", "plainhost"}

\* Credential sets a config call can store for a host; 0 is "no entry".
Creds == {1, 2}

\* Cap on _agentCount, i.e. on the number of agents ever built.
MaxAgents == 3

CtxIds == 1..MaxAgents

NoCtx == 0
NoAddr == "none"
NoSock == "none"

VARIABLES
  sockets,             \* downstream sockets: state and remote address
  closeListeners,      \* per socket: the contexts whose listener is on "close"
  agentCount,          \* _agentCount
  connectionContexts,  \* _connectionContexts: clientAddress -> context
  contexts,            \* every context object built so far, by identity
  creds,               \* credential store: host -> credential set, 0 if none
  req,                 \* per downstream socket: the request in flight
  forced401,           \* origin fixture: 401 answers queued by sendWwwAuth
  upstreamProxy,       \* what the proxy was started with: HTTP_PROXY,
                       \* HTTPS_PROXY, NO_PROXY
  originCloses,        \* origin: sockets it will close after an answer
  lastCall,            \* the last call of an operation that only computes
  tunnels,             \* _tunnels: clientAddress -> the tunnel's client socket
  targets,             \* per client socket: the target socket of its tunnel
  portsFile,           \* the ports file: its text, or none
  nodeTlsEnv,          \* process.env.NODE_TLS_REJECT_UNAUTHORIZED
  ntlmOrigins,         \* origin fixture: the hosts whose server demands NTLM
  facade               \* HttpMitmProxyFacade: _ntlmProxyListening, _ntlmProxy

\* Tunnels, the ports file, the environment of the process, the origins and
\* the facade of the MITM proxy.
sideVars == <<tunnels, targets, portsFile, nodeTlsEnv, ntlmOrigins, facade>>

envVars == <<upstreamProxy, originCloses, lastCall, sideVars>>

(* ------------------------------------------------------------------ *)
(* Upstream proxy: NO_PROXY and the choice of the route                *)
(* ------------------------------------------------------------------ *)

\* The i-th character of a string.
CharAt(str, i) == SubSeq(str, i, i)

\* Where the first comma of str is; 0 if it has none.
FirstComma(str) ==
  IF \E i \in 1..Len(str) : CharAt(str, i) = ","
  THEN CHOOSE i \in 1..Len(str) :
         /\ CharAt(str, i) = ","
         /\ \A j \in 1..(i - 1) : CharAt(str, j) # ","
  ELSE 0

\* The comma-separated tokens of the NO_PROXY string.
RECURSIVE Tokens(_)
Tokens(str) ==
  IF Len(str) = 0 THEN <<>>
  ELSE LET i == FirstComma(str) IN
       IF i = 0 THEN <<str>>
       ELSE <<SubSeq(str, 1, i - 1)>> \o Tokens(SubSeq(str, i + 1, Len(str)))

StartsWith(str, pre) ==
  Len(pre) <= Len(str) /\ SubSeq(str, 1, Len(pre)) = pre

EndsWith(str, suf) ==
  /\ Len(suf) <= Len(str)
  /\ SubSeq(str, Len(str) - Len(suf) + 1, Len(str)) = suf

\* A token matches only the host it spells out.
MatchesTokenExact(token, host) == token = host

\* One NO_PROXY token against the target's host name: "*" alone matches
\* everything, a leading "*" the names with that suffix, a trailing "*" the
\* names with that prefix, anything else the very name.
MatchesToken(token, host) ==
  IF token = "*" THEN TRUE
  ELSE IF Len(token) > 0 /\ CharAt(token, 1) = "*"
  THEN EndsWith(host, SubSeq(token, 2, Len(token)))
  ELSE IF Len(token) > 0 /\ CharAt(token, Len(token)) = "*"
  THEN StartsWith(host, SubSeq(token, 1, Len(token) - 1))
  ELSE token = host

\* The NO_PROXY resolver: some token matches the target.
targetInNoProxy(noProxy, host) ==
  \E i \in 1..Len(Tokens(noProxy)) : MatchesToken(Tokens(noProxy)[i], host)

\* The names the launcher keeps away from the upstream proxy.
Loopback == <<"localhost", "127.0.0.1">>

HasToken(noProxy, token) ==
  \E i \in 1..Len(Tokens(noProxy)) : Tokens(noProxy)[i] = token

AddToken(noProxy, token) ==
  IF HasToken(noProxy, token) THEN noProxy
  ELSE IF Len(noProxy) = 0 THEN token
  ELSE noProxy \o "," \o token

\* The launcher leaves NO_PROXY as it finds it.
processNoProxyLoopbackOff(noProxy) == noProxy

\* The launcher's NO_PROXY: localhost and 127.0.0.1 are added unless they
\* are there already or <-loopback> is.
processNoProxyLoopback(noProxy) ==
  IF HasToken(noProxy, "<-loopback>") THEN noProxy
  ELSE AddToken(AddToken(noProxy, Loopback[1]), Loopback[2])

\* coreServer.start(httpProxy, httpsProxy, noProxy): the settings as given.
Start(httpProxy, httpsProxy, noProxy) ==
  [ httpProxy  |-> httpProxy,     \* an HTTP_PROXY url was given
    httpsProxy |-> httpsProxy,    \* an HTTPS_PROXY url was given
    noProxy    |-> noProxy,
    launcher   |-> FALSE,
    envNoProxy |-> noProxy ]

\* The launcher starting the proxy from the environment variables.
StartFromEnvironment(httpProxy, httpsProxy, noProxy) ==
  [ Start(httpProxy, httpsProxy, processNoProxyLoopback(noProxy))
      EXCEPT !.launcher = TRUE, !.envNoProxy = noProxy ]

\* A proxy started without upstream proxy.
NoUpstreamProxy == Start(FALSE, FALSE, "")

\* Whichever proxy variable is set serves every target.
setUpstreamProxyConfigAnyProxy(cfg, targetHost, isSSL) ==
  IF targetInNoProxy(cfg.noProxy, targetHost) THEN FALSE
  ELSE cfg.httpProxy \/ cfg.httpsProxy

\* resolve(target, isSSL): TRUE when the target is reached through the
\* upstream proxy, HTTPS_PROXY taking the place of HTTP_PROXY for an SSL
\* target when it is set.
setUpstreamProxyConfig(cfg, targetHost, isSSL) ==
  IF targetInNoProxy(cfg.noProxy, targetHost) THEN FALSE
  ELSE IF isSSL /\ cfg.httpsProxy THEN TRUE
  ELSE cfg.httpProxy

\* The environment variable is not set.
Unset == "<unset>"

\* The variable is "truthy": set, and not to the empty string.
Truthy(env) == env # Unset /\ env # ""

\* Certificates are verified only when the variable is "1".
nodeTlsRejectUnauthorizedOnlyOnOne == nodeTlsEnv = "1"

\* nodeTlsRejectUnauthorized(): verify certificates unless the variable is
\* set to "0".
nodeTlsRejectUnauthorized ==
  IF Truthy(nodeTlsEnv) THEN nodeTlsEnv # "0" ELSE TRUE

\* CompleteUrl.isLocalhost
isLocalhost(targetHost) == targetHost \in {"localhost", "127.0.0.1", "::1"}

\* agentOptions without the limit of one socket per peer (Node's default).
agentOptionsDefaultPool(isSSL, targetHost) ==
  [ keepAlive |-> TRUE, maxSockets |-> 0,
    rejectUnauthorized |-> nodeTlsRejectUnauthorized /\ ~isLocalhost(targetHost) ]

\* agentOptions of getAgent: one kept-alive socket per peer; self-signed
\* certificates are allowed when the target is on localhost.
agentOptions(isSSL, targetHost) ==
  [ keepAlive          |-> TRUE,
    maxSockets         |-> 1,
    rejectUnauthorized |-> nodeTlsRejectUnauthorized
                             /\ ~isLocalhost(targetHost) ]

\* The agent built for a target: through the upstream proxy or direct. Its
\* id tells the agent objects apart; the manager numbers them.
getAgent(isSSL, targetHost) ==
  [ class   |-> IF setUpstreamProxyConfig(upstreamProxy, targetHost, isSSL)
                THEN (IF isSSL THEN "HttpsProxyAgent" ELSE "HttpProxyAgent")
                ELSE (IF isSSL THEN "https.Agent" ELSE "http.Agent"),
    options |-> agentOptions(isSSL, targetHost),
    id      |-> 0 ]

NoAgent ==
  [ class |-> "none",
    options |-> [keepAlive |-> FALSE, maxSockets |-> 0,
                 rejectUnauthorized |-> FALSE],
    id |-> 0 ]

\* The requests of the agent traverse the upstream proxy.
ViaProxy(agent) == agent.class \in {"HttpsProxyAgent", "HttpProxyAgent"}

\* The host name of an origin; the origins are plain HTTP servers.
HostName(h) == IF h = "plainhost" THEN "localhost" ELSE "ntlm.acme.com"

(* ------------------------------------------------------------------ *)
(* ConnectionContext objects                                           *)
(* ------------------------------------------------------------------ *)

\* A slot of `contexts` no context has been built in yet.
NullContext ==
  [ built               |-> FALSE,
    clientAddress       |-> NoAddr,
    clientSocket        |-> NoSock,
    agent               |-> NoAgent,
    configApiConnection |-> FALSE,
    destroyCalls        |-> 0,
    destroyEvent        |-> "none",
    handshakeState      |-> [h \in Hosts |-> "Idle"],
    upstream            |-> [h \in Hosts |-> "none"],
    upSock              |-> [h \in Hosts |-> 0],
    type3Cred           |-> [h \in Hosts |-> 0] ]

\* new this.ConnectionContext() with the three fields set by the manager.
NewContext(clientAddress, agent, clientSocket) ==
  [ NullContext EXCEPT !.built = TRUE,
                       !.clientAddress = clientAddress,
                       !.agent = agent,
                       !.clientSocket = clientSocket ]

\* context.destroy(event): ends the upstream agent's sockets at once; the
\* calls are counted and the event of the last one is kept.
destroy(c, event) ==
  [c EXCEPT !.destroyCalls = @ + 1,
            !.destroyEvent = event,
            !.upstream = [h \in Hosts |-> "none"],
            !.upSock = [h \in Hosts |-> 0],
            !.handshakeState = [h \in Hosts |-> "Idle"],
            !.type3Cred = [h \in Hosts |-> 0]]

(* ------------------------------------------------------------------ *)
(* The manager's state as one value, and its operations on it          *)
(* ------------------------------------------------------------------ *)

Mgr ==
  [ agentCount |-> agentCount,
    table      |-> connectionContexts,
    contexts   |-> contexts,
    listeners  |-> closeListeners ]

SetMgr(m) ==
  /\ agentCount' = m.agentCount
  /\ connectionContexts' = m.table
  /\ contexts' = m.contexts
  /\ closeListeners' = m.listeners

\* clientSocket.remoteAddress + ":" + clientSocket.remotePort
getClientAddress(s) == sockets[s].remote

\* clientAddress in this._connectionContexts
Tracked(m, a) == m.table[a] # NoCtx

\* The branch that builds a context, without clientSocket.once("close", ...).
createNewNoListener(m, s, a, agent) ==
  LET id == m.agentCount + 1 IN
  [ m EXCEPT !.agentCount = id,
             !.contexts[id] = NewContext(a, [agent EXCEPT !.id = id], s),
             !.table[a] = id ]

\* The branch of createConnectionContext that builds a context.
createNew(m, s, a, agent) ==
  LET id == m.agentCount + 1 IN
  [ m EXCEPT !.agentCount = id,
             !.contexts[id] = NewContext(a, [agent EXCEPT !.id = id], s),
             !.table[a] = id,
             !.listeners[s] = @ \cup {id} ]

\* createConnectionContext without its test for an existing context.
createAlways(m, s, isSSL, targetHost) ==
  createNew(m, s, getClientAddress(s), getAgent(isSSL, targetHost))

createConnectionContext(m, s, isSSL, targetHost) ==
  LET a == getClientAddress(s) IN
  IF Tracked(m, a) THEN m
  ELSE createNew(m, s, a, getAgent(isSSL, targetHost))

\* getUntrackedAgent(targetHost) for the config API request on s: a new
\* http.Agent() no table of the manager refers to; the agents are counted.
\* getUntrackedAgent handing out the agent the manager made last.
getUntrackedAgentLastMade(m, s, targetHost) ==
  [ m |-> m,
    agent |-> [ class |-> "http.Agent",
                options |-> [ keepAlive |-> FALSE, maxSockets |-> 0,
                              rejectUnauthorized |-> TRUE ],
                id |-> m.agentCount ] ]

getUntrackedAgent(m, s, targetHost) ==
  [ m |-> [m EXCEPT !.agentCount = @ + 1],
    agent |-> [ class |-> "http.Agent",
                options |-> [ keepAlive |-> FALSE, maxSockets |-> 0,
                              rejectUnauthorized |-> TRUE ],
                id |-> m.agentCount + 1 ] ]

\* What createConnectionContext(s) returns, read off the state it leaves.
getConnectionContextFromClientSocket(m, s) == m.table[getClientAddress(s)]

\* clientSocket?.removeListener("close", context.socketCloseListener)
removeListener(lst, s, id) ==
  IF s = NoSock THEN lst ELSE [lst EXCEPT ![s] = @ \ {id}]

\* removeAgent without its delete of the table entry.
removeAgentKeepsEntry(m, event, a) ==
  IF Tracked(m, a)
  THEN LET id == m.table[a] IN
       [ m EXCEPT !.listeners = removeListener(@, m.contexts[id].clientSocket, id),
                  !.contexts[id] = destroy(@, event) ]
  ELSE m

\* removeAgent without its removeListener.
removeAgentKeepsListener(m, event, a) ==
  IF Tracked(m, a)
  THEN LET id == m.table[a] IN
       [ m EXCEPT !.contexts[id] = destroy(@, event),
                  !.table[a] = NoCtx ]
  ELSE m

removeAgent(m, event, a) ==
  IF Tracked(m, a)
  THEN LET id == m.table[a] IN
       [ m EXCEPT !.listeners = removeListener(@, m.contexts[id].clientSocket, id),
                  !.contexts[id] = destroy(@, event),
                  !.table[a] = NoCtx ]
  ELSE m

\* removeAllConnectionContexts without its configApiConnection branch.
PreservedNever(c) == FALSE

\* removeAllConnectionContexts with the test of configApiConnection negated.
PreservedUnlessConfig(c) == ~c.configApiConnection

\* The test of removeAllConnectionContexts that keeps a context.
Preserved(c) == c.configApiConnection

\* The contexts the loop of removeAllConnectionContexts visits.
TrackedIds(m) == {m.table[a] : a \in {x \in Addrs : Tracked(m, x)}}

removeAllConnectionContexts(m, event) ==
  LET kept == {id \in TrackedIds(m) : Preserved(m.contexts[id])}
      gone == TrackedIds(m) \ kept
  IN [ m EXCEPT
         !.listeners = [s \in Sockets |->
                          @[s] \ {id \in gone : m.contexts[id].clientSocket = s}],
         !.contexts = [id \in CtxIds |->
                         IF id \in gone THEN destroy(@[id], event) ELSE @[id]],
         \* preservedContexts[context.clientAddress] = context
         !.table = [k \in Addrs |->
                      IF \E id \in kept : m.contexts[id].clientAddress = k
                      THEN CHOOSE id \in kept : m.contexts[id].clientAddress = k
                      ELSE NoCtx] ]

(* ------------------------------------------------------------------ *)
(* Downstream sockets                                                  *)
(* ------------------------------------------------------------------ *)

Open(s) == sockets[s].state = "open"

\* No tunnel under a client address.
NoTunnel == "none"

\* addTunnel(client, target): the tunnel is stored under the client's
\* address; its target is the target socket of that client.
addTunnel(tn, client) == [tn EXCEPT ![getClientAddress(client)] = client]

\* removeTunnel(client): the address is read off the socket at the call.
removeTunnel(tn, client) ==
  LET a == getClientAddress(client) IN
  IF a \in Addrs /\ tn[a] # NoTunnel THEN [tn EXCEPT ![a] = NoTunnel] ELSE tn

\* The client sockets of the tunnels in the table.
TunnelClients(tn) == {tn[a] : a \in {x \in Addrs : tn[x] # NoTunnel}}

\* removeAndCloseAllTunnels that clears the table and ends no socket.
removeAndCloseAllTunnelsOnlyClears(tn, tg, event) ==
  [ tunnels |-> [a \in Addrs |-> NoTunnel], targets |-> tg ]

\* removeAndCloseAllTunnels(event): target.end() for every tunnel of the
\* table that has a target, then an empty table.
removeAndCloseAllTunnels(tn, tg, event) ==
  [ tunnels |-> [a \in Addrs |-> NoTunnel],
    targets |-> [s \in Sockets |->
                   IF s \in TunnelClients(tn) /\ tg[s] # "none"
                   THEN "ended" ELSE tg[s]] ]

\* The open socket s is the client of a tunnel.
Tunneled(s) == targets[s] # "none"

\* A socket after "close": remoteAddress and remotePort are undefined.
ClosedSocket == [state |-> "closed", remote |-> NoAddr]

\* The listener accepts a connection; no two open sockets share an address.
SocketAccept(s, a) ==
  /\ sockets[s].state = "unused"
  /\ \A t \in Sockets : Open(t) => sockets[t].remote # a
  /\ sockets' = [sockets EXCEPT ![s] = [state |-> "open", remote |-> a]]
  /\ UNCHANGED <<closeListeners, agentCount, connectionContexts, contexts>>
  /\ UNCHANGED <<creds, req, forced401>>
  /\ UNCHANGED envVars

\* removeAgentOnClose.bind(this, clientAddress), run for every listener on s.
RECURSIVE fireClose(_, _)
fireClose(m, ids) ==
  IF ids = {} THEN m
  ELSE LET id == CHOOSE x \in ids : TRUE IN
       fireClose(removeAgent(m, "close", m.contexts[id].clientAddress),
                 ids \ {id})

\* The manager after s has emitted "close": its once-listeners ran.
afterClose(m, s) == fireClose([m EXCEPT !.listeners[s] = {}], m.listeners[s])

(* ------------------------------------------------------------------ *)
(* Requests: the interceptor's state machine on the pinned context     *)
(* ------------------------------------------------------------------ *)

NoHost == "none"

IdleRequest ==
  [ phase      |-> "idle",     \* idle, leg0 (original), leg1 (Type 1), leg3 (Type 3)
    host       |-> NoHost,
    cred       |-> 0,          \* the credentials selected by the lookup
    ctx        |-> NoCtx,      \* the context the request runs on
    prevAuth   |-> FALSE,      \* the socket's context was Authenticated for host
    fresh      |-> FALSE,      \* the origin holds its upstream socket unauthenticated
    firstCred  |-> 0,          \* credentials of the context's earlier handshake
    afterReset |-> FALSE,      \* first request to host since a reset took that;
                               \* config API request in flight at a reset
    first      |-> FALSE,      \* its context was created for it
    hsSock     |-> 0,          \* upstream socket its handshake runs on; the
                               \* agent of a config API request
    afterError |-> FALSE,      \* it arrived after a request had ended in
                               \* an upstream socket error
    afterReject |-> FALSE,     \* the request before it on the context was a
                               \* handshake the origin rejected
    upCount    |-> 0,          \* upstream requests made for it
    authSent   |-> FALSE,      \* the last of them carried an Authorization header
    status     |-> "none",     \* what the client got: 200, 401, hangup, closed
    lostAuth   |-> {} ]        \* hosts the socket was authenticated to at a reset

\* The request once the client has its answer (or lost its socket).
Delivered(r, status) ==
  [ IdleRequest EXCEPT !.upCount = r.upCount, !.authSent = r.authSent,
                       !.status = status, !.lostAuth = r.lostAuth ]

\* Credential lookup for the target host.
SelectCred(h) == creds[h]

\* The origin's answer to one upstream request on an upstream socket.
OriginAnswer(h, leg, upState, forced) ==
  IF h \notin ntlmOrigins THEN "200"
  ELSE IF forced > 0 THEN "401ntlm"
  ELSE IF leg = "leg0" THEN (IF upState = "authed" THEN "200" ELSE "401ntlm")
  ELSE IF leg = "leg1" THEN "401type2"
  ELSE "200"

\* The origin's view of the upstream socket after that request.
OriginSocket(h, leg, upState, forced) ==
  IF h \notin ntlmOrigins \/ forced > 0 THEN upState
  ELSE IF leg = "leg1" THEN "open"
  ELSE IF leg = "leg3" THEN "authed"
  ELSE upState

Is401(ans) == ans \in {"401ntlm", "401type2"}

StatusOf(ans) ==
  IF Is401(ans) THEN "401" ELSE IF ans = "504" THEN "504" ELSE "200"

\* The handshake started on no challenge at all.
StartsHandshakeNever(ans, cred) == FALSE

\* The handshake started without the credential lookup having matched.
StartsHandshakeAnyHost(ans, cred) == Is401(ans)

\* response.status == 401 AND WWW-Authenticate contains NTLM, on a matched host
StartsHandshake(ans, cred) == Is401(ans) /\ cred # 0

\* The credentials of the context's earlier handshake, kept and used again.
Type3CredentialCached(r) ==
  IF contexts[r.ctx].type3Cred[r.host] # 0
  THEN contexts[r.ctx].type3Cred[r.host] ELSE r.cred

\* The credentials the Type 3 message is computed from.
Type3Credential(r) == r.cred

\* A rejected handshake leaves the context in state Failed.
ContextOnAnswerStaysFailed(c, r, ans) ==
  LET h == r.host IN
  IF r.phase = "leg0"
  THEN IF StartsHandshake(ans, r.cred)
       THEN [c EXCEPT !.handshakeState[h] = "Type1Sent"]
       ELSE c
  ELSE IF r.phase = "leg1"
  THEN IF ans = "401type2"
       THEN [c EXCEPT !.handshakeState[h] = "Type3Sent",
                      !.type3Cred[h] = r.cred]
       ELSE [c EXCEPT !.handshakeState[h] = "Failed"]
  ELSE IF ans = "200"
       THEN [c EXCEPT !.handshakeState[h] = "Authenticated"]
       ELSE [c EXCEPT !.handshakeState[h] = "Failed"]

\* The handshake state kept once per context, for every origin alike.
ContextOnAnswerOneState(c, r, ans) ==
  LET h == r.host
      All(st) == [g \in Hosts |-> st] IN
  IF r.phase = "leg0"
  THEN IF StartsHandshake(ans, r.cred)
       THEN [c EXCEPT !.handshakeState = All("Type1Sent")]
       ELSE c
  ELSE IF r.phase = "leg1"
  THEN IF ans = "401type2"
       THEN [c EXCEPT !.handshakeState = All("Type3Sent"),
                      !.type3Cred[h] = Type3Credential(r)]
       ELSE [c EXCEPT !.handshakeState = All("Idle")]
  ELSE IF ans = "200"
       THEN [c EXCEPT !.handshakeState = All("Authenticated")]
       ELSE [c EXCEPT !.handshakeState = All("Idle")]

\* The context after the proxy has handled the origin's answer.
ContextOnAnswer(c, r, ans) ==
  LET h == r.host IN
  IF r.phase = "leg0"
  THEN IF StartsHandshake(ans, r.cred)
       THEN [c EXCEPT !.handshakeState[h] = "Type1Sent"]
       ELSE c
  ELSE IF r.phase = "leg1"
  THEN IF ans = "401type2"
       THEN [c EXCEPT !.handshakeState[h] = "Type3Sent",
                      !.type3Cred[h] = Type3Credential(r)]
       ELSE [c EXCEPT !.handshakeState[h] = "Idle"]
  ELSE IF ans = "200"
       THEN [c EXCEPT !.handshakeState[h] = "Authenticated"]
       ELSE [c EXCEPT !.handshakeState[h] = "Idle"]

\* A challenge on a connection that was authenticated goes to the client.
RequestOnAnswerNoReauth(r, ans) ==
  IF r.phase = "leg0" /\ StartsHandshake(ans, r.cred) /\ ~r.prevAuth
  THEN [r EXCEPT !.phase = "leg1", !.upCount = @ + 1, !.authSent = TRUE]
  ELSE IF r.phase = "leg1" /\ ans = "401type2"
  THEN [r EXCEPT !.phase = "leg3", !.upCount = @ + 1]
  ELSE Delivered(r, StatusOf(ans))

\* A handshake the origin rejects is started over for the same request.
RequestOnAnswerRetries(r, ans) ==
  IF r.phase = "leg0" /\ StartsHandshake(ans, r.cred)
  THEN [r EXCEPT !.phase = "leg1", !.upCount = @ + 1, !.authSent = TRUE]
  ELSE IF r.phase = "leg1" /\ ans = "401type2"
  THEN [r EXCEPT !.phase = "leg3", !.upCount = @ + 1]
  ELSE IF r.phase # "leg0" /\ Is401(ans)
  THEN [r EXCEPT !.phase = "leg1", !.upCount = @ + 1]
  ELSE Delivered(r, StatusOf(ans))

\* The request after the proxy has handled the origin's answer: either the
\* next leg is on its way or the answer went to the client.
RequestOnAnswer(r, ans) ==
  IF r.phase = "leg0" /\ StartsHandshake(ans, r.cred)
  THEN [r EXCEPT !.phase = "leg1", !.upCount = @ + 1, !.authSent = TRUE]
  ELSE IF r.phase = "leg1" /\ ans = "401type2"
  THEN [r EXCEPT !.phase = "leg3", !.upCount = @ + 1]
  ELSE Delivered(r, StatusOf(ans))

\* The context tracked under a is Authenticated for origin h.
WasAuthenticated(a, h) ==
  /\ Tracked(Mgr, a)
  /\ contexts[connectionContexts[a]].handshakeState[h] = "Authenticated"

\* A request arrives on a downstream socket: lookup, context, forward.
RequestArrive(s, h) ==
  /\ Open(s)
  /\ ~Tunneled(s)
  /\ req[s].phase = "idle"
  /\ LET a  == getClientAddress(s)
         m1 == createConnectionContext(Mgr, s, FALSE, HostName(h))
         id == getConnectionContextFromClientSocket(m1, s)
         m2 == [m1 EXCEPT !.contexts[id].upstream[h] =
                            IF @ = "none" THEN "open" ELSE @,
                          !.contexts[id].upSock[h] =
                            IF @ = 0 THEN 1 ELSE @]
     IN /\ (Tracked(Mgr, a) \/ agentCount < MaxAgents)
        /\ m1.agentCount <= MaxAgents
        /\ SetMgr(m2)
        /\ req' = [req EXCEPT ![s] =
                     [ IdleRequest EXCEPT
                         !.phase = "leg0", !.host = h, !.cred = SelectCred(h),
                         !.ctx = id, !.upCount = 1, !.status = "pending",
                         !.prevAuth = WasAuthenticated(a, h),
                         !.fresh = m2.contexts[id].upstream[h] # "authed",
                         !.firstCred = m2.contexts[id].type3Cred[h],
                         !.first = ~Tracked(Mgr, a),
                         !.hsSock = m2.contexts[id].upSock[h],
                         !.afterError = \E t \in Sockets :
                                         req[t].status \in {"504", "hangup"},
                         !.afterReset = h \in req[s].lostAuth,
                         !.afterReject = /\ Tracked(Mgr, a)
                                         /\ req[s].status = "401"
                                         /\ req[s].authSent,
                         !.lostAuth = req[s].lostAuth \ {h} ]]
  /\ UNCHANGED <<sockets, creds, forced401>>
  /\ UNCHANGED envVars

\* The upstream socket of the handshake closed after the origin's answer,
\* the next leg still to be sent: the agent has a new socket, which the
\* origin holds unauthenticated.
ContextOnClose(c, r, retry) ==
  [c EXCEPT !.upSock[r.host] = @ + 1,
            !.upstream[r.host] = "open",
            !.handshakeState[r.host] = IF retry THEN "Type1Sent" ELSE "Idle"]

\* The next leg is sent on the new socket as if nothing had happened.
RequestOnCloseGoesOn(r, r1, newSock, retry) == r1

\* The handshake is aborted: either a fresh one starts with its Type 1
\* request on the new socket, or the client gets the 401.
RequestOnClose(r, r1, newSock, retry) ==
  IF retry
  THEN [r EXCEPT !.phase = "leg1", !.upCount = @ + 1, !.authSent = TRUE,
                 !.hsSock = newSock]
  ELSE Delivered(r, "401")

\* The origin answers the leg in flight and the proxy handles the answer.
UpstreamResponse(s) ==
  /\ req[s].phase # "idle"
  /\ LET r   == req[s]
         h   == r.host
         c   == contexts[r.ctx]
         f   == IF h = "ntlmhost" THEN forced401 ELSE 0
         ans == OriginAnswer(h, r.phase, c.upstream[h], f)
         c1  == [c EXCEPT !.upstream[h] = OriginSocket(h, r.phase, @, f)]
         c2  == ContextOnAnswer(c1, r, ans)
         r1  == RequestOnAnswer(r, ans)
         closed == originCloses.pending /\ r1.phase # "idle"
     IN /\ c.upstream[h] # "none"
        /\ \E retry \in (IF closed THEN BOOLEAN ELSE {FALSE}) :
             /\ contexts' = [contexts EXCEPT ![r.ctx] =
                               IF closed THEN ContextOnClose(c2, r, retry)
                               ELSE c2]
             /\ req' = [req EXCEPT ![s] =
                          IF closed
                          THEN RequestOnClose(r, r1, c.upSock[h] + 1, retry)
                          ELSE r1]
        /\ forced401' = IF f > 0 THEN forced401 - 1 ELSE forced401
        /\ originCloses' = IF closed
                           THEN [pending |-> FALSE,
                                 done |-> originCloses.done + 1]
                           ELSE originCloses
  /\ UNCHANGED <<sockets, closeListeners, agentCount, connectionContexts, creds>>
  /\ UNCHANGED <<upstreamProxy, lastCall>>
  /\ UNCHANGED sideVars

\* What is left of the request on a socket that went away.
Cancelled(r, how) ==
  IF r.phase = "idle" THEN r ELSE Delivered(r, how)

\* The socket emits "close": its once-listeners run and are dropped; the
\* pipeline of the request in flight is cancelled.
SocketClose(s) ==
  /\ Open(s)
  /\ sockets' = [sockets EXCEPT ![s] = ClosedSocket]
  /\ SetMgr(afterClose(Mgr, s))
  /\ req' = [req EXCEPT ![s] = Cancelled(@, "closed")]
  \* the tunnel of s ends with it; its handler calls removeTunnel(s) before
  \* or after the socket has lost its address
  /\ targets' = [targets EXCEPT ![s] = IF @ = "open" THEN "ended" ELSE @]
  /\ \E late \in (IF Tunneled(s) THEN BOOLEAN ELSE {TRUE}) :
       tunnels' = IF Tunneled(s) /\ ~late THEN removeTunnel(tunnels, s)
                  ELSE tunnels
  /\ UNCHANGED <<creds, forced401>>
  /\ UNCHANGED <<upstreamProxy, originCloses, lastCall, portsFile, nodeTlsEnv,
                 ntlmOrigins, facade>>

\* The upstream socket of the request in flight is gone (its context was
\* destroyed): on a direct route the downstream socket is torn down.
RequestAborted(s) ==
  /\ Open(s)
  /\ req[s].phase # "idle"
  /\ contexts[req[s].ctx].upstream[req[s].host] = "none"
  /\ sockets' = [sockets EXCEPT ![s] = ClosedSocket]
  /\ SetMgr(afterClose(Mgr, s))
  /\ req' = [req EXCEPT ![s] = Cancelled(@, "hangup")]
  /\ UNCHANGED <<creds, forced401>>
  /\ UNCHANGED envVars

\* An upstream socket error tears the downstream socket down on every route.
UpstreamSocketErrorHangsUp(s) ==
  /\ Open(s)
  /\ req[s].phase # "idle"
  /\ contexts[req[s].ctx].upstream[req[s].host] # "none"
  /\ sockets' = [sockets EXCEPT ![s] = ClosedSocket]
  /\ SetMgr(afterClose(Mgr, s))
  /\ req' = [req EXCEPT ![s] = Cancelled(@, "hangup")]
  /\ UNCHANGED <<creds, forced401>>
  /\ UNCHANGED envVars

\* The upstream socket of the request in flight fails before the answer:
\* through an upstream proxy that proxy answers 504, which goes to the client
\* as any answer does; on a direct route the downstream socket is torn down.
UpstreamSocketError(s) ==
  /\ Open(s)
  /\ req[s].phase # "idle"
  /\ contexts[req[s].ctx].upstream[req[s].host] # "none"
  /\ LET r == req[s]
         c == contexts[r.ctx]
     IN IF ViaProxy(c.agent)
        THEN /\ contexts' = [contexts EXCEPT ![r.ctx] =
                               ContextOnAnswer(
                                 [c EXCEPT !.upstream[r.host] = "open"],
                                 r, "504")]
             /\ req' = [req EXCEPT ![s] = RequestOnAnswer(r, "504")]
             /\ UNCHANGED <<sockets, closeListeners, agentCount,
                            connectionContexts>>
        ELSE /\ sockets' = [sockets EXCEPT ![s] = ClosedSocket]
             /\ SetMgr(afterClose(Mgr, s))
             /\ req' = [req EXCEPT ![s] = Cancelled(@, "hangup")]
  /\ UNCHANGED <<creds, forced401>>
  /\ UNCHANGED envVars

\* A request to the config API comes through the proxy on s: the connection
\* serving it is marked configApiConnection.
ConfigApiRequest(s) ==
  /\ Open(s)
  /\ ~Tunneled(s)
  /\ req[s].phase = "idle"
  /\ LET m1 == createConnectionContext(Mgr, s, FALSE, Loopback[1])
         id == getConnectionContextFromClientSocket(m1, s)
     IN /\ (Tracked(Mgr, getClientAddress(s)) \/ agentCount < MaxAgents)
        /\ m1.agentCount <= MaxAgents
        /\ SetMgr([m1 EXCEPT !.contexts[id].configApiConnection = TRUE])
  /\ UNCHANGED <<sockets, creds, req, forced401>>
  /\ UNCHANGED envVars

\* POST /ntlm-config that also tears the tracked contexts down.
ConfigPostTearsDown(h, cr) ==
  /\ creds' = [creds EXCEPT ![h] = cr]
  /\ SetMgr(removeAllConnectionContexts(Mgr, "config"))
  /\ UNCHANGED <<sockets, req, forced401>>
  /\ UNCHANGED envVars

\* POST /ntlm-config: upsert the credentials of a host.
ConfigPost(h, cr) ==
  /\ creds' = [creds EXCEPT ![h] = cr]
  /\ UNCHANGED <<sockets, closeListeners, agentCount, connectionContexts,
                 contexts, req, forced401>>
  /\ UNCHANGED envVars

\* The hosts the context tracked for socket s is Authenticated to.
AuthenticatedHosts(s) ==
  IF Open(s) /\ Tracked(Mgr, getClientAddress(s))
  THEN {h \in Hosts :
          contexts[connectionContexts[getClientAddress(s)]].handshakeState[h]
            = "Authenticated"}
  ELSE {}

\* POST /reset: remove all credentials, tear down the tracked contexts and
\* the tunnels.
Reset ==
  /\ creds' = [h \in Hosts |-> 0]
  /\ SetMgr(removeAllConnectionContexts(Mgr, "reset"))
  /\ tunnels' = removeAndCloseAllTunnels(tunnels, targets, "reset").tunnels
  /\ targets' = removeAndCloseAllTunnels(tunnels, targets, "reset").targets
  /\ req' = [s \in Sockets |->
               [req[s] EXCEPT !.lostAuth = @ \cup AuthenticatedHosts(s),
                              !.afterReset = @ \/ req[s].phase = "config"]]
  /\ UNCHANGED <<sockets, forced401>>
  /\ UNCHANGED <<upstreamProxy, originCloses, lastCall, portsFile, nodeTlsEnv,
                 ntlmOrigins, facade>>

\* A request to the config API comes through the proxy on s and is sent on
\* to the config API: the context of its connection is marked
\* configApiConnection, the request goes out on an untracked agent.
ConfigApiSend(s) ==
  /\ Open(s)
  /\ ~Tunneled(s)
  /\ req[s].phase = "idle"
  /\ LET m1 == createConnectionContext(Mgr, s, FALSE, Loopback[1])
         id == getConnectionContextFromClientSocket(m1, s)
         u  == getUntrackedAgent(m1, s, Loopback[1])
     IN /\ u.m.agentCount <= MaxAgents
        /\ SetMgr([u.m EXCEPT !.contexts[id].configApiConnection = TRUE])
        /\ req' = [req EXCEPT ![s] =
                     [IdleRequest EXCEPT !.phase = "config", !.ctx = id,
                                         !.hsSock = u.agent.id,
                                         !.upCount = 1, !.status = "pending",
                                         !.lostAuth = req[s].lostAuth]]
  /\ UNCHANGED <<sockets, creds, forced401>>
  /\ UNCHANGED envVars

\* The agent with that id belongs to a context that was destroyed.
AgentDestroyed(id) ==
  \E c \in CtxIds : /\ contexts[c].built
                    /\ contexts[c].agent.id = id
                    /\ contexts[c].destroyCalls > 0

\* The config API has answered the request of s: the response reaches the
\* client unless the context of the connection or the agent of the request
\* was destroyed meanwhile.
ConfigApiAnswer(s) ==
  /\ req[s].phase = "config"
  /\ req' = [req EXCEPT ![s] =
               [ Delivered(@, IF contexts[@.ctx].destroyCalls > 0
                                   \/ AgentDestroyed(@.hsSock)
                                THEN "hangup" ELSE "200")
                 EXCEPT !.afterReset = req[s].afterReset ]]
  /\ UNCHANGED <<sockets, closeListeners, agentCount, connectionContexts,
                 contexts, creds, forced401>>
  /\ UNCHANGED envVars

\* The core stops: its teardown calls removeAllConnectionContexts("stop")
\* and removeAndCloseAllTunnels("stop"); the credentials stay.
CoreStop ==
  /\ SetMgr(removeAllConnectionContexts(Mgr, "stop"))
  /\ tunnels' = removeAndCloseAllTunnels(tunnels, targets, "stop").tunnels
  /\ targets' = removeAndCloseAllTunnels(tunnels, targets, "stop").targets
  /\ UNCHANGED <<sockets, creds, req, forced401>>
  /\ UNCHANGED <<upstreamProxy, originCloses, lastCall, portsFile, nodeTlsEnv,
                 ntlmOrigins, facade>>

\* CONNECT for a host no credential pattern matches, on a connection that
\* carried nothing yet: a raw connection to the target, spliced to s and
\* tracked as a tunnel.
Connect(s) ==
  /\ Open(s)
  /\ ~Tunneled(s)
  /\ req[s].phase = "idle"
  /\ ~Tracked(Mgr, getClientAddress(s))
  /\ tunnels' = addTunnel(tunnels, s)
  /\ targets' = [targets EXCEPT ![s] = "open"]
  /\ UNCHANGED <<sockets, closeListeners, agentCount, connectionContexts,
                 contexts, creds, req, forced401>>
  /\ UNCHANGED <<upstreamProxy, originCloses, lastCall, portsFile, nodeTlsEnv,
                 ntlmOrigins, facade>>

\* The target of the tunnel of s ends the connection.
TargetClose(s) ==
  /\ targets[s] = "open"
  /\ targets' = [targets EXCEPT ![s] = "ended"]
  /\ UNCHANGED <<sockets, closeListeners, agentCount, connectionContexts,
                 contexts, creds, req, forced401, tunnels>>
  /\ UNCHANGED <<upstreamProxy, originCloses, lastCall, portsFile, nodeTlsEnv,
                 ntlmOrigins, facade>>

\* The splice of a tunnel whose target side has ended ends the client side.
TunnelSpliceEnds(s) ==
  /\ targets[s] = "ended"
  /\ SocketClose(s)

\* removeAndCloseAllTunnels("stop"), called when the proxy shuts down.
RemoveAndCloseAllTunnels ==
  /\ tunnels' = removeAndCloseAllTunnels(tunnels, targets, "stop").tunnels
  /\ targets' = removeAndCloseAllTunnels(tunnels, targets, "stop").targets
  /\ UNCHANGED <<sockets, closeListeners, agentCount, connectionContexts,
                 contexts, creds, req, forced401>>
  /\ UNCHANGED <<upstreamProxy, originCloses, lastCall, portsFile, nodeTlsEnv,
                 ntlmOrigins, facade>>

\* removeAgent(event, clientAddress) called on the manager.
RemoveAgent(a) ==
  /\ Tracked(Mgr, a)
  /\ SetMgr(removeAgent(Mgr, "remove", a))
  /\ UNCHANGED <<sockets, creds, req, forced401>>
  /\ UNCHANGED envVars

\* Cap on the 401 answers the origin fixture has queued.
MaxForced == 1

\* expressServer.sendWwwAuthOnce("NTLM"): the origin will challenge again.
ForceChallenge ==
  /\ forced401 < MaxForced
  /\ forced401' = forced401 + 1
  /\ UNCHANGED <<sockets, closeListeners, agentCount, connectionContexts,
                 contexts, creds, req>>
  /\ UNCHANGED envVars

\* Cap on the upstream sockets the origin closes in mid-handshake.
MaxCloses == 1

\* The origin will close its socket after its next answer of a handshake.
OriginClosesSocket ==
  /\ ~originCloses.pending
  /\ originCloses.done < MaxCloses
  /\ originCloses' = [originCloses EXCEPT !.pending = TRUE]
  /\ UNCHANGED <<sockets, closeListeners, agentCount, connectionContexts,
                 contexts, creds, req, forced401, upstreamProxy, lastCall>>
  /\ UNCHANGED sideVars

\* getAgent(isSSL, targetHost) is called and its agent returned.
GetAgent(isSSL, targetHost) ==
  /\ lastCall' = [ op |-> "getAgent", isSSL |-> isSSL,
                   targetHost |-> targetHost,
                   agent |-> getAgent(isSSL, targetHost) ]
  /\ UNCHANGED <<sockets, closeListeners, agentCount, connectionContexts,
                 contexts, creds, req, forced401, upstreamProxy, originCloses>>
  /\ UNCHANGED sideVars

\* No operation has been called yet.
NoCall == [op |-> "none"]

\* No ports file.
NoFile == "none"

\* The proxy has just been constructed: no connection, nothing in flight.
\* new HttpMitmProxyFacade(): _ntlmProxyListening = false, the proxy made and
\* not listening; no listen is under way, close() has not been called.
NewFacade ==
  [ listening |-> FALSE,        \* _ntlmProxyListening
    proxy |-> "closed",         \* _ntlmProxy: closed, starting or open
    pending |-> FALSE,          \* the callback of listen is still to run
    closeCalled |-> FALSE,      \* close() was called since the last listen()
    underlyingClose |-> FALSE ] \* the last close() called _ntlmProxy.close()

\* listen(port): _ntlmProxy.listen(options, callback) is under way.
listen(f) ==
  [f EXCEPT !.proxy = "starting", !.pending = TRUE, !.closeCalled = FALSE]

\* The callback of _ntlmProxy.listen: on an error the promise is rejected,
\* otherwise the proxy listens and _ntlmProxyListening = true.
listenCallback(f, err) ==
  IF err THEN [f EXCEPT !.proxy = "closed", !.pending = FALSE]
  ELSE [f EXCEPT !.proxy = "open", !.pending = FALSE, !.listening = TRUE]

\* close(): _ntlmProxy.close() if _ntlmProxyListening, nothing otherwise.
close(f) ==
  IF f.listening
  THEN [f EXCEPT !.proxy = "closed", !.listening = FALSE,
                 !.closeCalled = TRUE, !.underlyingClose = TRUE]
  ELSE [f EXCEPT !.closeCalled = TRUE, !.underlyingClose = FALSE]

InitManager ==
  /\ facade = NewFacade
  /\ sockets = [s \in Sockets |-> [state |-> "unused", remote |-> NoAddr]]
  /\ closeListeners = [s \in Sockets |-> {}]
  /\ agentCount = 0
  /\ connectionContexts = [a \in Addrs |-> NoCtx]
  /\ contexts = [id \in CtxIds |-> NullContext]
  /\ req = [s \in Sockets |-> IdleRequest]
  /\ forced401 = 0
  /\ originCloses = [pending |-> FALSE, done |-> 0]
  /\ lastCall = NoCall
  /\ tunnels = [a \in Addrs |-> NoTunnel]
  /\ targets = [s \in Sockets |-> "none"]

\* No host configured, no upstream proxy. The origins are plain HTTP servers:
\* certificate verification plays no part and is switched off.
Init ==
  /\ InitManager
  /\ ntlmOrigins = {"ntlmhost"}
  /\ creds = [h \in Hosts |-> 0]
  /\ upstreamProxy = NoUpstreamProxy
  /\ nodeTlsEnv = "0"
  /\ portsFile = NoFile

\* Everything that happens on the downstream connections in S, which come
\* from the addresses in A.
Traffic(S, A) ==
  \/ \E s \in S, a \in A : SocketAccept(s, a)
  \/ \E s \in S : SocketClose(s)
  \/ \E s \in S, h \in Hosts : RequestArrive(s, h)
  \/ \E s \in S : UpstreamResponse(s)
  \/ \E s \in S : RequestAborted(s)
  \/ \E s \in S : ConfigApiRequest(s)
  \/ Reset
  \/ \E a \in Addrs : RemoveAgent(a)

\* Credentials being configured and the origin demanding authentication again.
Configure ==
  \/ \E h \in Hosts, cr \in Creds : ConfigPost(h, cr)
  \/ ForceChallenge

vars == <<sockets, closeListeners, agentCount, connectionContexts, contexts,
          creds, req, forced401, upstreamProxy, originCloses, lastCall,
          tunnels, targets, portsFile, nodeTlsEnv, ntlmOrigins, facade>>

\* The manager under the traffic of every downstream socket, no host being
\* configured: requests pass through.
Next == Traffic(Sockets, Addrs)

Spec == Init /\ [][Next]_vars

\* One downstream keep-alive connection at a time, with the configuration
\* calls and the origin's challenges: the handshake.
NextProxy == Traffic({"s1"}, {"a1"}) \/ Configure

SpecProxy == Init /\ [][NextProxy]_vars

\* One downstream connection that stays open, its context never removed:
\* every upstream request the proxy has made is answered by the origin in
\* the end, and the proxy handles the answer.
NextHandshake ==
  \/ SocketAccept("s1", "a1")
  \/ \E h \in Hosts : RequestArrive("s1", h)
  \/ UpstreamResponse("s1")
  \/ Configure

FairHandshake ==
  Init /\ [][NextHandshake]_vars /\ WF_vars(UpstreamResponse("s1"))

\* NO_PROXY settings the proxy is started with.
NoProxySettings ==
  {"", "localhost", "*host", "local*", "*", "google.com", "<-loopback>",
   "google.com,<-loopback>", "127.0.0.1,google.com"}

\* Host names requests are made to.
Targets ==
  {"localhost", "127.0.0.1", "myhost", "google.com", "ntlm.acme.com"}

\* The proxy started behind an upstream proxy (or none), the NTLM host
\* configured or not; one downstream connection at a time, whose upstream
\* sockets may fail or be closed by the origin.
InitUpstream ==
  /\ InitManager
  /\ ntlmOrigins = {"ntlmhost"}
  /\ \E cr \in {0, 1} : creds = [h \in Hosts |->
                                   IF h = "ntlmhost" THEN cr ELSE 0]
  /\ \E httpProxy \in BOOLEAN,
        noProxy \in {"", "localhost", "*host", "local*", "*", "google.com"} :
       upstreamProxy = Start(httpProxy, FALSE, noProxy)
  /\ nodeTlsEnv = "0"
  /\ portsFile = NoFile

NextUpstream ==
  \/ \E s \in Sockets : SocketAccept(s, "a1")
  \/ \E s \in Sockets, h \in Hosts : RequestArrive(s, h)
  \/ \E s \in Sockets : UpstreamResponse(s)
  \/ \E s \in Sockets : UpstreamSocketError(s)
  \/ OriginClosesSocket

SpecUpstream == InitUpstream /\ [][NextUpstream]_vars

\* Values of NODE_TLS_REJECT_UNAUTHORIZED.
NodeTlsSettings == {Unset, "", "0", "1", "true"}

\* The choice of the route, for every way of starting the proxy.
InitRoute ==
  /\ InitManager
  /\ ntlmOrigins = {"ntlmhost"}
  /\ nodeTlsEnv \in NodeTlsSettings
  /\ portsFile = NoFile
  /\ creds = [h \in Hosts |-> 0]
  /\ \E httpProxy \in BOOLEAN, httpsProxy \in BOOLEAN,
        noProxy \in NoProxySettings :
       upstreamProxy \in {Start(httpProxy, httpsProxy, noProxy),
                          StartFromEnvironment(httpProxy, httpsProxy, noProxy)}

NextRoute == \E isSSL \in BOOLEAN, targetHost \in Targets :
               GetAgent(isSSL, targetHost)

SpecRoute == InitRoute /\ [][NextRoute]_vars

\* Connections that become tunnels, next to connections the proxy
\* intercepts, config API requests among them, and the calls that tear down.
NextTunnel ==
  \/ \E s \in Sockets, a \in Addrs : SocketAccept(s, a)
  \/ \E s \in Sockets : Connect(s)
  \/ \E s \in Sockets : TargetClose(s)
  \/ \E s \in Sockets : TunnelSpliceEnds(s)
  \/ \E s \in Sockets : SocketClose(s)
  \/ \E s \in Sockets : ConfigApiRequest(s)
  \/ \E s \in Sockets, h \in Hosts : RequestArrive(s, h)
  \/ \E s \in Sockets : UpstreamResponse(s)
  \/ Reset
  \/ RemoveAndCloseAllTunnels

SpecTunnel == Init /\ [][NextTunnel]_vars

\* createConnectionContext(clientSocket, isSSL, targetHost), called by the
\* interceptor for a request on s; the agent of the context it returns is
\* the agent the request is sent with.
\* A call of createConnectionContext with any arguments; the call notes the
\* context it returned.
CreateConnectionContextCall(s, isSSL, targetHost) ==
  /\ Open(s)
  /\ ~Tunneled(s)
  /\ LET m1 == createConnectionContext(Mgr, s, isSSL, targetHost)
         id == getConnectionContextFromClientSocket(m1, s)
     IN /\ m1.agentCount <= MaxAgents
        /\ SetMgr(m1)
        /\ lastCall' = [ op |-> "createConnectionContext", isSSL |-> isSSL,
                         targetHost |-> targetHost,
                         created |-> ~Tracked(Mgr, getClientAddress(s)),
                         socket |-> s, ctx |-> id,
                         agent |-> m1.contexts[id].agent ]
  /\ UNCHANGED <<sockets, creds, req, forced401, upstreamProxy, originCloses>>
  /\ UNCHANGED sideVars

CreateConnectionContext(s, isSSL, targetHost) ==
  /\ Open(s)
  \* a connection carries plain requests or the requests of a TLS session
  /\ Tracked(Mgr, getClientAddress(s)) =>
       isSSL = (contexts[connectionContexts[getClientAddress(s)]].agent.class
                  \in {"https.Agent", "HttpsProxyAgent"})
  /\ CreateConnectionContextCall(s, isSSL, targetHost)

\* The proxy started without upstream proxy, or behind one that localhost
\* bypasses, NODE_TLS_REJECT_UNAUTHORIZED unset, "0" or "1".
InitAgents ==
  /\ InitManager
  /\ ntlmOrigins = {"ntlmhost"}
  /\ nodeTlsEnv \in {Unset, "0", "1"}
  /\ portsFile = NoFile
  /\ creds = [h \in Hosts |-> 0]
  /\ upstreamProxy \in {Start(FALSE, FALSE, ""), Start(TRUE, FALSE, "localhost")}

\* Targets of the requests: one on localhost, one elsewhere.
AgentTargets == {"localhost", "ntlm.acme.com"}

\* Connections that come and go, and the contexts made for their requests.
NextAgents ==
  \/ \E s \in Sockets, a \in Addrs : SocketAccept(s, a)
  \/ \E s \in Sockets, isSSL \in BOOLEAN, targetHost \in AgentTargets :
       CreateConnectionContext(s, isSSL, targetHost)
  \/ \E s \in Sockets : SocketClose(s)

SpecAgents == InitAgents /\ [][NextAgents]_vars

\* The manager called with any arguments on the open sockets.
NextManagerCalls ==
  \/ \E s \in Sockets, a \in Addrs : SocketAccept(s, a)
  \/ \E s \in Sockets, isSSL \in BOOLEAN, targetHost \in AgentTargets :
       CreateConnectionContextCall(s, isSSL, targetHost)
  \/ \E s \in Sockets : SocketClose(s)

SpecManagerCalls == InitAgents /\ [][NextManagerCalls]_vars

\* Connections with and without config API requests, and the core's stop.
NextStop ==
  \/ \E s \in Sockets, a \in Addrs : SocketAccept(s, a)
  \/ \E s \in Sockets : SocketClose(s)
  \/ \E s \in Sockets : ConfigApiRequest(s)
  \/ \E s \in Sockets : RequestArrive(s, "plainhost")
  \/ \E s \in Sockets : UpstreamResponse(s)
  \/ \E s \in Sockets : RequestAborted(s)
  \/ CoreStop

SpecStop == Init /\ [][NextStop]_vars

\* Config API requests in flight on their connections, next to intercepted
\* connections and resets.
NextConfigApi ==
  \/ \E s \in Sockets, a \in Addrs : SocketAccept(s, a)
  \/ \E s \in Sockets : SocketClose(s)
  \/ \E s \in Sockets : ConfigApiSend(s)
  \/ \E s \in Sockets : ConfigApiAnswer(s)
  \/ \E s \in Sockets : RequestArrive(s, "plainhost")
  \/ \E s \in Sockets : req[s].phase # "config" /\ UpstreamResponse(s)
  \/ Reset

SpecConfigApi == Init /\ [][NextConfigApi]_vars

(* ------------------------------------------------------------------ *)
(* Host patterns: matches and bestMatch                                *)
(* ------------------------------------------------------------------ *)

\* Where the first occurrence of the character ch in str is; 0 if none.
FirstOf(str, ch) ==
  IF \E i \in 1..Len(str) : CharAt(str, i) = ch
  THEN CHOOSE i \in 1..Len(str) :
         /\ CharAt(str, i) = ch
         /\ \A j \in 1..(i - 1) : CharAt(str, j) # ch
  ELSE 0

\* The host part and the port part ("" without port) of a pattern.
HostOf(pattern) ==
  IF FirstOf(pattern, ":") = 0 THEN pattern
  ELSE SubSeq(pattern, 1, FirstOf(pattern, ":") - 1)

PortOf(pattern) ==
  IF FirstOf(pattern, ":") = 0 THEN ""
  ELSE SubSeq(pattern, FirstOf(pattern, ":") + 1, Len(pattern))

\* A host name split on "."
RECURSIVE Labels(_)
Labels(host) ==
  LET i == FirstOf(host, ".") IN
  IF i = 0 THEN <<host>>
  ELSE <<SubSeq(host, 1, i - 1)>> \o Labels(SubSeq(host, i + 1, Len(host)))

\* One label of a pattern against one label of a host: "*" stands for any
\* run of characters, everything else for itself.
RECURSIVE LabelMatches(_, _)
LabelMatches(pl, hl) ==
  IF Len(pl) = 0 THEN Len(hl) = 0
  ELSE IF CharAt(pl, 1) = "*"
  THEN \/ LabelMatches(SubSeq(pl, 2, Len(pl)), hl)
       \/ Len(hl) > 0 /\ LabelMatches(pl, SubSeq(hl, 2, Len(hl)))
  ELSE /\ Len(hl) > 0
       /\ CharAt(pl, 1) = CharAt(hl, 1)
       /\ LabelMatches(SubSeq(pl, 2, Len(pl)), SubSeq(hl, 2, Len(hl)))

\* matches(pattern, host, port): a port in the pattern must be the port of
\* the request; the labels of pattern and host align one to one; the
\* pattern "*" matches every host.
matches(pattern, host, port) ==
  /\ PortOf(pattern) \in {"", port}
  /\ \/ HostOf(pattern) = "*"
     \/ /\ Len(Labels(HostOf(pattern))) = Len(Labels(host))
        /\ \A i \in 1..Len(Labels(host)) :
             LabelMatches(Labels(HostOf(pattern))[i], Labels(host)[i])

\* The wildcards of a pattern and the literal characters after its last one.
Wildcards(pattern) == {i \in 1..Len(pattern) : CharAt(pattern, i) = "*"}

LiteralSuffix(pattern) ==
  Len(pattern) - (CHOOSE i \in Wildcards(pattern) :
                    \A j \in Wildcards(pattern) : j <= i)

\* The characters of patterns, in ASCII order, and a character's place.
Alphabet == "*-.0123456789:abcdefghijklmnopqrstuvwxyz"

Ord(ch) == FirstOf(Alphabet, ch)

\* p comes before q in lexicographic order.
LexLess(p, q) ==
  \E i \in 1..(Len(q)) :
    /\ \A j \in 1..(i - 1) : j <= Len(p) /\ CharAt(p, j) = CharAt(q, j)
    /\ \/ i = Len(p) + 1
       \/ i <= Len(p) /\ Ord(CharAt(p, i)) < Ord(CharAt(q, i))

\* Precedence class: host:port, host, wildcard.
Class(pattern) ==
  IF Wildcards(pattern) # {} THEN 3
  ELSE IF PortOf(pattern) # "" THEN 1 ELSE 2

\* p takes precedence over q.
Precedes(p, q) ==
  \/ Class(p) < Class(q)
  \/ /\ Class(p) = 3 /\ Class(q) = 3
     /\ \/ LiteralSuffix(p) > LiteralSuffix(q)
        \/ /\ LiteralSuffix(p) = LiteralSuffix(q)
           /\ \/ Cardinality(Wildcards(p)) < Cardinality(Wildcards(q))
              \/ /\ Cardinality(Wildcards(p)) = Cardinality(Wildcards(q))
                 /\ LexLess(p, q)

NoPattern == "none"

\* The entries of the store that match the target.
Matching(patterns, host, port) ==
  {i \in DOMAIN patterns : matches(patterns[i], host, port)}

\* The first matching entry of the store, in insertion order.
bestMatchFirst(patterns, host, port) ==
  LET M == Matching(patterns, host, port) IN
  IF M = {} THEN NoPattern
  ELSE patterns[CHOOSE i \in M : \A j \in M : i <= j]

\* bestMatch(patterns, host, port): the matching entry that takes
\* precedence over every other matching entry.
bestMatch(patterns, host, port) ==
  LET M == Matching(patterns, host, port) IN
  IF M = {} THEN NoPattern
  ELSE patterns[CHOOSE i \in M :
                  \A j \in M \ {i} : Precedes(patterns[i], patterns[j])]

\* Patterns of the credential store, target hosts and ports.
Patterns ==
  {"ntlm.acme.com:80", "ntlm.acme.com", "*.acme.com", "n*.acme.com",
   "ntlm.*.com", "*.*.com", "local*", "*"}

MatchHosts == {"ntlm.acme.com", "www.google.com", "localhost"}

Ports == {"80", "8080"}

\* Cap on the entries of the credential store.
MaxPatterns == 3

\* The stores: lists of patterns, no pattern twice (adding a pattern again
\* overwrites its entry).
Stores ==
  {st \in UNION {[1..n -> Patterns] : n \in 0..MaxPatterns} :
     \A i, j \in DOMAIN st : st[i] = st[j] => i = j}

\* bestMatch is called on a store; later calls are on the same store.
BestMatch(patterns, host, port) ==
  /\ lastCall.op = "bestMatch" => lastCall.patterns = patterns
  /\ lastCall' = [ op |-> "bestMatch", patterns |-> patterns,
                   host |-> host, port |-> port,
                   result |-> bestMatch(patterns, host, port) ]
  /\ UNCHANGED <<sockets, closeListeners, agentCount, connectionContexts,
                 contexts, creds, req, forced401, upstreamProxy, originCloses>>
  /\ UNCHANGED sideVars

NextMatch == \E patterns \in Stores, host \in MatchHosts, port \in Ports :
               BestMatch(patterns, host, port)

SpecMatch == Init /\ [][NextMatch]_vars

(* ------------------------------------------------------------------ *)
(* Claims about the manager                                            *)
(* ------------------------------------------------------------------ *)

\* The context tracked under address a.
At(a) == contexts[connectionContexts[a]]

TrackedNow(a) == Tracked(Mgr, a)

C2_ConfigContextsSurvive ==
  [][ Reset =>
        \A a \in Addrs : (TrackedNow(a) /\ At(a).configApiConnection) =>
          LET id == connectionContexts[a] IN
            /\ connectionContexts'[getClientAddress(At(a).clientSocket)] = id
            /\ contexts'[id].destroyCalls = 0
            /\ contexts'[id].upstream = contexts[id].upstream
            /\ id \in closeListeners'[At(a).clientSocket] ]_vars

\* C2 witness: a reset has destroyed a context while a config-API context,
\* untouched, is still tracked with its listener on its open socket.
C2_Witness ==
  /\ \E id \in CtxIds : contexts[id].destroyEvent = "reset"
  /\ \E a \in Addrs :
       /\ TrackedNow(a)
       /\ At(a).configApiConnection
       /\ At(a).destroyCalls = 0
       /\ connectionContexts[a] \in closeListeners[At(a).clientSocket]

\* C3: after removeAllConnectionContexts the table holds exactly the
\* contexts that were tracked and have configApiConnection; destroy was
\* called exactly once on every other context that was tracked, and no
\* socket gets such a context any more.
C3_RemoveAllKeepsExactlyConfig ==
  [][ Reset =>
        /\ \A a \in Addrs :
             connectionContexts'[a] =
               IF TrackedNow(a) /\ At(a).configApiConnection
               THEN connectionContexts[a] ELSE NoCtx
        /\ \A a \in Addrs : (TrackedNow(a) /\ ~At(a).configApiConnection) =>
             LET id == connectionContexts[a] IN
               /\ contexts'[id].destroyCalls = 1
               /\ contexts'[id].destroyEvent = "reset"
               /\ \A s \in Sockets : Open(s) =>
                    connectionContexts'[getClientAddress(s)] # id
        /\ \A id \in CtxIds : id \notin TrackedIds(Mgr) =>
             contexts'[id] = contexts[id] ]_vars

\* C3 witness: two contexts were tracked, a reset destroyed the one that is
\* not a config-API context, once, and the table holds just the other.
C3_Witness ==
  \E a, b \in Addrs :
    /\ a # b
    /\ TrackedNow(a) /\ At(a).configApiConnection
    /\ ~TrackedNow(b)
    /\ \E id \in CtxIds : /\ contexts[id].clientAddress = b
                          /\ contexts[id].destroyEvent = "reset"
                          /\ contexts[id].destroyCalls = 1
                          /\ Open(contexts[id].clientSocket)

(* ------------------------------------------------------------------ *)
(* Claims about the handshake                                          *)
(* ------------------------------------------------------------------ *)

\* The origin's answer to the leg in flight on s reaches the proxy in this
\* step (the request was not cut off by its socket or its context going).
Answered(s) ==
  /\ req[s].phase # "idle"
  /\ req'[s].phase # req[s].phase
  /\ req'[s].status \notin {"hangup", "closed"}

\* The client of s gets its response in this step.
ClientAnswered(s) == Answered(s) /\ req'[s].phase = "idle"

\* The context the request in flight on s runs on, after the step.
CtxAfter(s) == contexts'[req[s].ctx]

\* C4: a request to an NTLM-configured host on a connection the origin does
\* not hold authenticated takes exactly 3 upstream requests and the client
\* gets the final 200, never an intermediate 401: a 401 reaches the client
\* only when the origin turns a leg of the handshake down.
C4_FreshAuthTakesThreeRequests ==
  [][ \A s \in Sockets :
        (ClientAnswered(s) /\ req[s].cred # 0 /\ req[s].host = "ntlmhost"
           /\ req[s].fresh) =>
          \/ /\ req'[s].status = "200"
             /\ req'[s].upCount = 3
             /\ req'[s].authSent
             /\ CtxAfter(s).handshakeState["ntlmhost"] = "Authenticated"
          \/ /\ req'[s].status = "401"
             /\ forced401 > 0 ]_vars

\* C4 witness: the first request of a connection to the configured NTLM
\* host has been answered 200 after 3 upstream requests.
C4_Witness ==
  \E s \in Sockets :
    /\ Open(s)
    /\ agentCount = 1
    /\ req[s].phase = "idle" /\ req[s].status = "200"
    /\ req[s].upCount = 3 /\ req[s].authSent
    /\ TrackedNow(getClientAddress(s))
    /\ At(getClientAddress(s)).handshakeState["ntlmhost"] = "Authenticated"

\* C5: a request whose host matches no entry of the credential store makes
\* exactly 1 upstream request, never sends a handshake leg, and the client
\* gets the origin's own answer, a 401 included.
C5_UnconfiguredPassThrough ==
  [][ \A s \in Sockets :
        (req[s].phase # "idle" /\ req[s].cred = 0) =>
          /\ req[s].phase = "leg0" /\ req[s].upCount = 1 /\ ~req[s].authSent
          /\ req'[s].phase \in {"leg0", "idle"}
          /\ ClientAnswered(s) =>
               /\ req'[s].upCount = 1
               /\ ~req'[s].authSent
               /\ req'[s].status =
                    StatusOf(OriginAnswer(req[s].host, "leg0",
                               contexts[req[s].ctx].upstream[req[s].host],
                               IF req[s].host = "ntlmhost"
                               THEN forced401 ELSE 0))
               /\ CtxAfter(s).handshakeState =
                    contexts[req[s].ctx].handshakeState ]_vars

\* C5 witness: the origin's 401 has reached the client after one upstream
\* request, no host being configured.
C5_Witness ==
  \E s \in Sockets :
    /\ \A h \in Hosts : creds[h] = 0
    /\ req[s].phase = "idle" /\ req[s].status = "401"
    /\ req[s].upCount = 1 /\ ~req[s].authSent

\* C6: on a keep-alive connection whose context is Authenticated for the
\* host, a later request is forwarded without an Authorization header on
\* the pinned upstream socket and succeeds, as long as the origin does not
\* challenge again and the context is not torn down.
C6_KeepAliveReusesHandshake ==
  [][ \A s \in Sockets :
        (Answered(s) /\ req[s].phase = "leg0" /\ req[s].prevAuth
           /\ forced401 = 0) =>
          /\ req'[s].phase = "idle"
          /\ req'[s].status = "200"
          /\ ~req'[s].authSent
          /\ req'[s].upCount = 1
          /\ CtxAfter(s).handshakeState[req[s].host] = "Authenticated" ]_vars

\* C6 witness: on the connection's one context, Authenticated by an earlier
\* request, a request has been answered 200 with one upstream request and
\* no Authorization header.
C6_Witness ==
  \E s \in Sockets :
    /\ Open(s)
    /\ agentCount = 1
    /\ req[s].phase = "idle" /\ req[s].status = "200"
    /\ req[s].upCount = 1 /\ ~req[s].authSent
    /\ TrackedNow(getClientAddress(s))
    /\ At(getClientAddress(s)).handshakeState["ntlmhost"] = "Authenticated"
    /\ At(getClientAddress(s)).type3Cred["ntlmhost"] = creds["ntlmhost"]
    /\ At(getClientAddress(s)).upstream["plainhost"] = "none"

\* C7: after POST /reset and re-adding credentials, the next request on
\* the same downstream connection to a host it was Authenticated to performs
\* the full handshake again (the Authorization header is seen) and is
\* answered 200.
C7_ResetForcesReauth ==
  [][ \A s \in Sockets :
        (ClientAnswered(s) /\ req[s].afterReset /\ req[s].cred # 0
           /\ forced401 = 0) =>
          /\ req'[s].status = "200"
          /\ req'[s].authSent
          /\ req'[s].upCount = 3 ]_vars

\* The same, for a connection whose context reset has torn down: every
\* connection but those that carried a config API request.
C7_ResetForcesReauthOfTornDown ==
  [][ \A s \in Sockets :
        (ClientAnswered(s) /\ req[s].afterReset /\ req[s].cred # 0
           /\ forced401 = 0 /\ ~contexts[req[s].ctx].configApiConnection) =>
          /\ req'[s].status = "200"
          /\ req'[s].authSent
          /\ req'[s].upCount = 3 ]_vars

\* C7 witness: the first request after a reset, credentials added again, is
\* in flight on the context that reset has preserved, still Authenticated.
C7_Witness ==
  \E s \in Sockets :
    /\ req[s].phase = "leg0" /\ req[s].afterReset /\ req[s].cred # 0
    /\ req[s].prevAuth
    /\ contexts[req[s].ctx].configApiConnection
    /\ contexts[req[s].ctx].handshakeState[req[s].host] = "Authenticated"

\* A step that stores credentials for a host (reset only clears them).
CredentialsPosted ==
  /\ creds' # creds
  /\ \E h \in Hosts : creds'[h] # 0

\* The store holds, for the host of the request in flight on s, other
\* credentials than the ones its context authenticated with.
Reconfigured(s) ==
  /\ creds[req[s].host] # 0
  /\ creds[req[s].host] # contexts[req[s].ctx].type3Cred[req[s].host]

\* C8: posting credentials for a host leaves every context, listener and
\* request in flight as it was (no context is destroyed, no handshake is
\* started), and the next request on a connection Authenticated with the
\* earlier credentials is forwarded without an Authorization header and
\* answered 200 unless the origin challenges.
C8_ReconfigureKeepsConnection ==
  [][ /\ CredentialsPosted =>
           /\ contexts' = contexts
           /\ connectionContexts' = connectionContexts
           /\ closeListeners' = closeListeners
           /\ req' = req
      /\ \A s \in Sockets :
           (Answered(s) /\ req[s].phase = "leg0" /\ req[s].prevAuth
              /\ Reconfigured(s) /\ forced401 = 0) =>
             /\ req'[s].phase = "idle"
             /\ req'[s].status = "200"
             /\ ~req'[s].authSent
             /\ req'[s].upCount = 1
             /\ CtxAfter(s).destroyCalls = 0
             /\ CtxAfter(s).handshakeState[req[s].host] = "Authenticated"
    ]_vars

\* C8 witness: a request has been answered 200 after one upstream request
\* without Authorization header on the connection's one context, which is
\* Authenticated with other credentials than the store now holds.
C8_Witness ==
  \E s \in Sockets :
    /\ Open(s)
    /\ agentCount = 1
    /\ req[s].phase = "idle" /\ req[s].status = "200"
    /\ req[s].upCount = 1 /\ ~req[s].authSent
    /\ TrackedNow(getClientAddress(s))
    /\ At(getClientAddress(s)).handshakeState["ntlmhost"] = "Authenticated"
    /\ At(getClientAddress(s)).upstream["plainhost"] = "none"
    /\ creds["ntlmhost"] # 0
    /\ At(getClientAddress(s)).type3Cred["ntlmhost"] # creds["ntlmhost"]

\* C9: when the origin answers 401 with an NTLM challenge to a request on a
\* connection that was Authenticated, the context leaves Authenticated, the
\* 401 is not passed on, a fresh handshake runs, and the client gets the 200
\* that ends it after 3 upstream requests.
C9_ServerInitiatedReauth ==
  [][ \A s \in Sockets :
        (Answered(s) /\ req[s].prevAuth /\ req[s].cred # 0) =>
          /\ (req[s].phase = "leg0" /\ forced401 > 0) =>
               /\ req'[s].phase = "leg1"
               /\ req'[s].status = "pending"
               /\ req'[s].upCount = 2
               /\ CtxAfter(s).handshakeState[req[s].host] = "Type1Sent"
          /\ (req[s].phase # "leg0" /\ forced401 = 0) =>
               \/ /\ req[s].phase = "leg1"
                  /\ req'[s].phase = "leg3"
                  /\ req'[s].status = "pending"
                  /\ req'[s].upCount = 3
               \/ /\ req[s].phase = "leg3"
                  /\ req'[s].phase = "idle"
                  /\ req'[s].status = "200"
                  /\ req'[s].upCount = 3
                  /\ req'[s].authSent
                  /\ CtxAfter(s).handshakeState[req[s].host] = "Authenticated"
    ]_vars

\* C9 witness: the Type 3 request of a handshake is in flight for a request
\* that arrived on an Authenticated connection.
C9_Witness ==
  \E s \in Sockets :
    /\ req[s].phase = "leg3" /\ req[s].prevAuth /\ req[s].cred # 0
    /\ req[s].upCount = 3
    /\ contexts[req[s].ctx].handshakeState[req[s].host] = "Type3Sent"

HandshakeRequests == 3

\* The place of a leg in the handshake.
LegNo(phase) ==
  CASE phase = "leg0" -> 1
    [] phase = "leg1" -> 2
    [] phase = "leg3" -> 3
    [] OTHER -> 4

\* C11: every request in flight ends with a response to the client; it
\* takes a bounded number of upstream requests, at most
\* the 3 of one handshake; each answer of the origin either goes to the
\* client or moves the handshake one leg on, never back; and a 401 that
\* answers a leg of the handshake (the origin rejected it) goes to the client
\* as the final 401 without another upstream request being made.
C11_RejectedHandshakeEnds ==
  /\ \A s \in Sockets :
       (req[s].phase # "idle") ~>
         (req[s].phase = "idle" /\ req[s].status \in {"200", "401"})
  /\ [](\A s \in Sockets : req[s].upCount <= HandshakeRequests)
  /\ [][ \A s \in Sockets :
           (req[s].phase # "idle" /\ req'[s] # req[s]
              /\ req'[s].status \notin {"hangup", "closed"}) =>
             /\ LegNo(req'[s].phase) >= LegNo(req[s].phase)
             /\ (req'[s].phase # req[s].phase /\ req'[s].phase # "idle") =>
                  /\ LegNo(req'[s].phase) = LegNo(req[s].phase) + 1
                  /\ req'[s].upCount = req[s].upCount + 1
             /\ (Answered(s) /\ req[s].phase # "leg0" /\ forced401 > 0) =>
                  /\ req'[s].phase = "idle"
                  /\ req'[s].status = "401"
                  /\ req'[s].upCount = req[s].upCount ]_vars

\* C11 witness: the client has the 401 of a handshake the origin rejected
\* at its Type 1 request, after 2 upstream requests.
C11_Witness ==
  \E s \in Sockets :
    /\ req[s].phase = "idle" /\ req[s].status = "401"
    /\ req[s].authSent /\ req[s].upCount = 2

\* C12: when a rejected handshake goes to the client as 401 the context is
\* back in Idle for the host; with no request in flight a context is never
\* in a state of the middle of a handshake, or Failed; and the next request
\* on that context, when the origin challenges it, starts a handshake with
\* its Type 1 request and, its Type 3 accepted, is answered 200.
C12_RejectionResetsHandshake ==
  /\ [](\A s \in Sockets, h \in Hosts :
          (Open(s) /\ req[s].phase = "idle"
             /\ TrackedNow(getClientAddress(s))) =>
            At(getClientAddress(s)).handshakeState[h]
              \in {"Idle", "Authenticated"})
  /\ [][ \A s \in Sockets :
           /\ (ClientAnswered(s) /\ req[s].phase # "leg0"
                 /\ req'[s].status = "401") =>
                CtxAfter(s).handshakeState[req[s].host] = "Idle"
           /\ (Answered(s) /\ req[s].afterReject /\ req[s].cred # 0) =>
                /\ (req[s].phase = "leg0" /\ req'[s].status # "200") =>
                     /\ req'[s].phase = "leg1"
                     /\ req'[s].authSent
                     /\ CtxAfter(s).handshakeState[req[s].host] = "Type1Sent"
                /\ (req[s].phase = "leg3" /\ forced401 = 0) =>
                     /\ req'[s].status = "200"
                     /\ req'[s].upCount = HandshakeRequests
                     /\ CtxAfter(s).handshakeState[req[s].host]
                          = "Authenticated" ]_vars

\* C12 witness: the Type 3 request of a handshake is in flight for the
\* request that followed a rejected handshake on the same context.
C12_Witness ==
  \E s \in Sockets :
    /\ req[s].phase = "leg3" /\ req[s].afterReject /\ req[s].cred # 0
    /\ contexts[req[s].ctx].handshakeState[req[s].host] = "Type3Sent"

\* The upstream socket closed under the handshake of the request on s.
ClosedUnder(s) ==
  /\ originCloses'.done > originCloses.done
  /\ req'[s] # req[s]

\* C13: the legs of a handshake in flight were all sent on one upstream
\* socket, the one the context holds for the host; when that socket closes
\* between two legs the next leg is not sent on the new socket: either a
\* fresh handshake starts there with its Type 1 request, or the client gets
\* the 401 and the handshake state is Idle.
C13_HandshakeStaysOnItsSocket ==
  /\ [](\A s \in Sockets :
          req[s].phase \in {"leg1", "leg3"} =>
            /\ contexts[req[s].ctx].upSock[req[s].host] = req[s].hsSock
            /\ (req[s].phase = "leg3" =>
                  contexts[req[s].ctx].handshakeState[req[s].host]
                    = "Type3Sent"))
  /\ [][ \A s \in Sockets : ClosedUnder(s) =>
           LET h == req[s].host
               c == contexts'[req[s].ctx]
           IN /\ c.upSock[h] # req[s].hsSock
              /\ \/ /\ req'[s].phase = "leg1"
                    /\ req'[s].hsSock = c.upSock[h]
                    /\ req'[s].upCount = req[s].upCount + 1
                    /\ c.handshakeState[h] = "Type1Sent"
                 \/ /\ req'[s].phase = "idle"
                    /\ req'[s].status = "401"
                    /\ req'[s].upCount = req[s].upCount
                    /\ c.handshakeState[h] = "Idle" ]_vars

\* A fresh handshake, started on the new socket, has sent its Type 3.
C13_Witness ==
  \E s \in Sockets :
    /\ req[s].phase = "leg3"
    /\ req[s].hsSock = 2
    /\ contexts[req[s].ctx].upSock[req[s].host] = 2

\* The request in flight on s ends in this step, with this status.
EndsWith504(s) ==
  req[s].phase # "idle" /\ req'[s].phase = "idle" /\ req'[s].status = "504"

EndsInHangUp(s) ==
  req[s].phase # "idle" /\ req'[s].phase = "idle" /\ req'[s].status = "hangup"

\* C14: a request whose upstream socket fails, to an NTLM host in any leg of
\* its handshake or to any other host, ends with 504 exactly on the route
\* through the upstream proxy, the downstream socket staying open and its
\* context tracked, and otherwise with the downstream socket torn down and
\* its context removed; requests that arrive afterwards are answered as the
\* origin answers them.
C14_UpstreamSocketError ==
  [][ \A s \in Sockets :
        /\ EndsWith504(s) =>
             /\ ViaProxy(contexts[req[s].ctx].agent)
             /\ Open(s) /\ sockets'[s] = sockets[s]
             /\ TrackedNow(getClientAddress(s))
             /\ connectionContexts' = connectionContexts
             /\ req'[s].upCount = req[s].upCount
        /\ EndsInHangUp(s) =>
             /\ ~ViaProxy(contexts[req[s].ctx].agent)
             /\ sockets'[s] = ClosedSocket
             /\ connectionContexts'[getClientAddress(s)] = NoCtx
             /\ req'[s].upCount = req[s].upCount
        /\ (ClientAnswered(s) /\ req[s].afterError /\ req'[s].status # "504"
              /\ originCloses' = originCloses) =>
             req'[s].status = IF req[s].host = "ntlmhost" /\ req[s].cred = 0
                              THEN "401" ELSE "200" ]_vars

\* After a 504 the same connection serves a later request to the NTLM host,
\* again through the upstream proxy: its Type 3 request is with the origin.
C14_Witness ==
  \E s \in Sockets :
    /\ req[s].phase = "leg3" /\ req[s].afterError
    /\ Open(s) /\ TrackedNow(getClientAddress(s))
    /\ ViaProxy(contexts[req[s].ctx].agent)

\* After a hang up the proxy serves a later request on a new connection.
C14_ServedAfterHangUp ==
  \E s, t \in Sockets :
    /\ req[s].status = "hangup" /\ ~Open(s)
    /\ req[t].phase = "leg3" /\ req[t].afterError
    /\ ~ViaProxy(contexts[req[t].ctx].agent)

\* Requests the upstream proxy has seen of the request answered on s.
upstreamProxyReqCount(s) ==
  IF ViaProxy(contexts[req[s].ctx].agent) THEN req'[s].upCount ELSE 0

\* C15: with HTTP_PROXY set, the request a connection opens with to
\* http://localhost gets its 200 with no request at the upstream proxy when
\* NO_PROXY is "localhost", "*host", "local*" or "*", and with one request
\* at the upstream proxy when NO_PROXY is "google.com".
C15_NoProxyPatterns ==
  [][ \A s \in Sockets :
        (ClientAnswered(s) /\ req[s].first /\ req[s].host = "plainhost"
           /\ upstreamProxy.httpProxy /\ req'[s].status = "200") =>
          /\ HostName(req[s].host) = "localhost"
          /\ upstreamProxy.noProxy \in {"localhost", "*host", "local*", "*"}
               => upstreamProxyReqCount(s) = 0
          /\ upstreamProxy.noProxy = "google.com"
               => upstreamProxyReqCount(s) = 1 ]_vars

\* NO_PROXY is "*host" and the first request of a connection, to localhost,
\* is with the origin on a direct route.
C15_Witness ==
  \E s \in Sockets :
    /\ req[s].phase = "leg0" /\ req[s].first /\ req[s].host = "plainhost"
    /\ upstreamProxy.httpProxy /\ upstreamProxy.noProxy = "*host"
    /\ contexts[req[s].ctx].agent.class = "http.Agent"

\* NO_PROXY is "google.com" and that request goes through the upstream proxy.
C15_ViaProxy ==
  \E s \in Sockets :
    /\ req[s].phase = "leg0" /\ req[s].first /\ req[s].host = "plainhost"
    /\ upstreamProxy.httpProxy /\ upstreamProxy.noProxy = "google.com"
    /\ contexts[req[s].ctx].agent.class = "HttpProxyAgent"

\* getAgent was called for a loopback target, <-loopback> not being in the
\* NO_PROXY setting.
LoopbackCall ==
  /\ lastCall.op = "getAgent"
  /\ lastCall.targetHost \in {Loopback[1], Loopback[2]}
  /\ ~HasToken(upstreamProxy.envNoProxy, "<-loopback>")

\* C16 as stated: whatever way the proxy was started, a target localhost or
\* 127.0.0.1 is reached directly unless <-loopback> is in NO_PROXY.
C16_LoopbackAlwaysBypassed ==
  LoopbackCall => ~ViaProxy(lastCall.agent)

\* C16: when the launcher started the proxy from the environment, a target
\* localhost or 127.0.0.1 is reached directly unless <-loopback> is in
\* NO_PROXY, whatever else NO_PROXY holds.
C16_LauncherBypassesLoopback ==
  (LoopbackCall /\ upstreamProxy.launcher) => ~ViaProxy(lastCall.agent)

\* The launcher found HTTP_PROXY and NO_PROXY "google.com", and 127.0.0.1
\* is reached directly.
C16_Witness ==
  /\ LoopbackCall /\ upstreamProxy.launcher
  /\ upstreamProxy.httpProxy /\ upstreamProxy.envNoProxy = "google.com"
  /\ lastCall.targetHost = "127.0.0.1" /\ lastCall.agent.class = "http.Agent"

\* The proxy variable for the scheme of the target is set: HTTP_PROXY, or
\* for an SSL target HTTPS_PROXY in its place.
RelevantProxySet(isSSL) ==
  upstreamProxy.httpProxy \/ (isSSL /\ upstreamProxy.httpsProxy)

\* The agent of a direct connection for the scheme.
DirectAgent(isSSL) == IF isSSL THEN "https.Agent" ELSE "http.Agent"

\* C17: the route getAgent resolves is direct when NO_PROXY lists the target
\* and when the proxy variable for the target's scheme is not set; with
\* HTTPS_PROXY alone a plain-HTTP target is reached directly.
C17_ResolveDirect ==
  lastCall.op = "getAgent" =>
    /\ targetInNoProxy(upstreamProxy.noProxy, lastCall.targetHost)
         => lastCall.agent.class = DirectAgent(lastCall.isSSL)
    /\ ~RelevantProxySet(lastCall.isSSL)
         => lastCall.agent.class = DirectAgent(lastCall.isSSL)
    /\ (upstreamProxy.httpsProxy /\ ~upstreamProxy.httpProxy
          /\ ~lastCall.isSSL) => lastCall.agent.class = "http.Agent"

\* HTTPS_PROXY alone, NO_PROXY not listing google.com: http://google.com is
\* reached directly.
C17_Witness ==
  /\ lastCall.op = "getAgent" /\ ~lastCall.isSSL
  /\ lastCall.targetHost = "google.com"
  /\ upstreamProxy.httpsProxy /\ ~upstreamProxy.httpProxy
  /\ ~targetInNoProxy(upstreamProxy.noProxy, "google.com")
  /\ lastCall.agent.class = "http.Agent"

\* The NO_PROXY resolver says bypass for the target of the request on s.
Bypass(s) == targetInNoProxy(upstreamProxy.noProxy, HostName(req[s].host))

\* C18: every request in flight whose target NO_PROXY lists, a later request
\* of a keep-alive connection included, goes out on a direct agent.
C18_BypassOnEveryRequest ==
  \A s \in Sockets :
    (req[s].phase # "idle" /\ Bypass(s)) =>
      ~ViaProxy(contexts[req[s].ctx].agent)

\* The same for the request a connection opens with.
C18_BypassOnFirstRequest ==
  \A s \in Sockets :
    (req[s].phase # "idle" /\ Bypass(s) /\ req[s].first) =>
      ~ViaProxy(contexts[req[s].ctx].agent)

\* A later request of a connection, to a target NO_PROXY lists, is with the
\* upstream proxy: the connection opened with a request to another host.
C18_Witness ==
  \E s \in Sockets :
    /\ req[s].phase = "leg0" /\ ~req[s].first /\ Bypass(s)
    /\ upstreamProxy.noProxy = "localhost"
    /\ contexts[req[s].ctx].agent.class = "HttpProxyAgent"

\* The patterns of the store of the last call that match its target.
MatchingPatterns ==
  {q \in Patterns :
     /\ \E i \in DOMAIN lastCall.patterns : lastCall.patterns[i] = q
     /\ matches(q, lastCall.host, lastCall.port)}

\* The stores with the entries of the last call's store, in any order.
Reordered ==
  {st \in Stores :
     {st[i] : i \in DOMAIN st}
       = {lastCall.patterns[i] : i \in DOMAIN lastCall.patterns}}

\* C19: bestMatch returns a matching pattern whenever one matches, the same
\* for every insertion order of the store: the exact host:port if it
\* matches, else the exact host, else the wildcard pattern with the longest
\* literal suffix, among those the one with the fewest wildcards, among
\* those the first in lexicographic order.
C19_MostSpecificPatternWins ==
  lastCall.op = "bestMatch" =>
    LET r == lastCall.result
        P == MatchingPatterns
        hp == lastCall.host \o ":" \o lastCall.port
    IN /\ (r = NoPattern) = (P = {})
       /\ P # {} =>
            /\ r \in P
            /\ hp \in P => r = hp
            /\ (hp \notin P /\ lastCall.host \in P) => r = lastCall.host
            /\ (hp \notin P /\ lastCall.host \notin P) =>
                 \A q \in P \ {r} :
                   /\ LiteralSuffix(r) >= LiteralSuffix(q)
                   /\ LiteralSuffix(r) = LiteralSuffix(q) =>
                        /\ Cardinality(Wildcards(r))
                             <= Cardinality(Wildcards(q))
                        /\ Cardinality(Wildcards(r))
                             = Cardinality(Wildcards(q)) => LexLess(r, q)
       /\ \A st \in Reordered :
            bestMatch(st, lastCall.host, lastCall.port) = r

\* Three wildcard patterns match ntlm.acme.com, the last one added wins: it
\* ties with the second on suffix and wildcards and comes first in
\* lexicographic order.
C19_Witness ==
  /\ lastCall.op = "bestMatch"
  /\ lastCall.patterns = <<"ntlm.*.com", "n*.acme.com", "*.acme.com">>
  /\ lastCall.host = "ntlm.acme.com"
  /\ lastCall.result = "*.acme.com"

\* C20, first half: a store that holds the pattern "*" has a match for
\* every target, whatever the number of its labels and its port.
C20_StarMatchesEveryHost ==
  (/\ lastCall.op = "bestMatch"
   /\ \E i \in DOMAIN lastCall.patterns : lastCall.patterns[i] = "*")
    => /\ "*" \in MatchingPatterns
       /\ lastCall.result # NoPattern

\* C20, second half: bestMatch returns "*" only when no other pattern of
\* the store matches the target.
C20_StarIsLowestPriority ==
  (lastCall.op = "bestMatch" /\ lastCall.result = "*")
    => MatchingPatterns = {"*"}

\* "*" was returned for a target of three labels that only "*" matches.
C20_Witness ==
  /\ lastCall.op = "bestMatch" /\ lastCall.result = "*"
  /\ lastCall.host = "www.google.com" /\ Len(lastCall.patterns) > 1

(* ------------------------------------------------------------------ *)
(* Tunnels                                                            *)
(* ------------------------------------------------------------------ *)

\* The tunnels of the table: their client sockets.
TabledTunnels == TunnelClients(tunnels)

\* A step takes a tunnel out of the table and leaves its client socket as
\* it was: no handler of that socket's "close" did it.
DropsTunnelOfLiveClient ==
  \E a \in Addrs :
    /\ tunnels[a] # NoTunnel
    /\ tunnels'[a] = NoTunnel
    /\ sockets'[tunnels[a]] = sockets[tunnels[a]]

\* C23 as stated: removeAndCloseAllTunnels ends both sockets of every tunnel,
\* so no client socket stays open once its tunnel is out of the table and
\* its target side has ended.
C23_BothSocketsEnded ==
  \A s \in Sockets :
    (targets[s] = "ended" /\ s \notin TabledTunnels) => ~Open(s)

\* C23: removeAndCloseAllTunnels, on shutdown and on reset, ends the target
\* socket of every tunnel of the table and leaves the table empty; it ends
\* no client socket, every socket is after the call as it was before.
C23_TargetsEndedTableEmptied ==
  [][ DropsTunnelOfLiveClient =>
        /\ \A a \in Addrs : tunnels'[a] = NoTunnel
        /\ \A s \in TabledTunnels : targets'[s] = "ended"
        /\ sockets' = sockets ]_vars

\* Two tunnels with open client sockets, both target sides ended, none of
\* them in the table any more.
C23_Witness ==
  /\ \A s \in Sockets : Open(s) /\ targets[s] = "ended"
  /\ TabledTunnels = {}

(* ------------------------------------------------------------------ *)
(* Reset                                                              *)
(* ------------------------------------------------------------------ *)

\* After POST /reset the credential store is empty, every context still
\* tracked is a config-API context and the tunnel table is empty.
ResetClearsTables ==
  Reset =>
    /\ \A h \in Hosts : creds'[h] = 0
    /\ \A a \in Addrs : connectionContexts'[a] # NoCtx =>
         contexts'[connectionContexts'[a]].configApiConnection
    /\ \A a \in Addrs : tunnels'[a] = NoTunnel

\* The first request to a host since a reset took the credentials the
\* connection was authenticated with, no credentials added since, is
\* answered on s.
AnsweredUnconfiguredAfterReset(s) ==
  /\ ClientAnswered(s)
  /\ req[s].afterReset
  /\ req[s].cred = 0
  /\ forced401 = 0

\* C21: after POST /reset the credential store is empty, no context other
\* than config-API contexts and no tunnel is tracked, and the next request
\* to a host configured before the reset is passed through unauthenticated:
\* one upstream request, no Authorization header, the origin's 401 for the
\* client.
C21_ResetPassesThrough ==
  /\ [][ResetClearsTables]_vars
  /\ [][ \A s \in Sockets : AnsweredUnconfiguredAfterReset(s) =>
           /\ req'[s].status = "401"
           /\ ~req'[s].authSent
           /\ req'[s].upCount = 1 ]_vars

\* The same, for a connection whose context reset has torn down: every
\* connection but those that carried a config API request.
C21_ResetPassesThroughOfTornDown ==
  /\ [][ResetClearsTables]_vars
  /\ [][ \A s \in Sockets :
           (AnsweredUnconfiguredAfterReset(s)
              /\ ~contexts[req[s].ctx].configApiConnection) =>
             /\ req'[s].status = "401"
             /\ ~req'[s].authSent
             /\ req'[s].upCount = 1 ]_vars

\* C21 witness: after a reset, nothing configured, a request to the host
\* the connection was authenticated to is in flight on the context that
\* reset has preserved, on its authenticated upstream socket.
C21_Witness ==
  \E s \in Sockets :
    /\ req[s].phase = "leg0" /\ req[s].afterReset /\ req[s].cred = 0
    /\ creds[req[s].host] = 0
    /\ contexts[req[s].ctx].configApiConnection
    /\ contexts[req[s].ctx].handshakeState[req[s].host] = "Authenticated"

(* ------------------------------------------------------------------ *)
(* Config API requests in flight                                      *)
(* ------------------------------------------------------------------ *)

\* C22: a reset while a config API request is in flight leaves the context
\* of its connection tracked and as it was, destroys no context that holds
\* the agent of the request, and the request is answered 200 unless its own
\* downstream socket closes.
C22_ResetSparesConfigApiRequest ==
  /\ [][ Reset => \A s \in Sockets : req[s].phase = "config" =>
           /\ contexts'[req[s].ctx] = contexts[req[s].ctx]
           /\ connectionContexts'[contexts[req[s].ctx].clientAddress]
                = req[s].ctx
           /\ req[s].ctx \in closeListeners'[s]
           /\ ~AgentDestroyed(req[s].hsSock)'
           /\ req'[s].phase = "config" ]_vars
  /\ [][ \A s \in Sockets :
           (req[s].phase = "config" /\ req[s].afterReset
              /\ req'[s].phase = "idle" /\ Open(s)') =>
             req'[s].status = "200" ]_vars

\* C22 witness: a config API request that was in flight when a reset
\* destroyed the context of another connection has got its response.
C22_Witness ==
  \E s \in Sockets :
    /\ req[s].phase = "idle" /\ req[s].afterReset /\ req[s].status = "200"
    /\ \E id \in CtxIds : contexts[id].destroyEvent = "reset"

(* ------------------------------------------------------------------ *)
(* The ports file                                                     *)
(* ------------------------------------------------------------------ *)

\* Where the last occurrence of the character ch in str is; 0 if none.
LastOf(str, ch) ==
  IF \E i \in 1..Len(str) : CharAt(str, i) = ch
  THEN CHOOSE i \in 1..Len(str) :
         /\ CharAt(str, i) = ch
         /\ \A j \in (i + 1)..Len(str) : CharAt(str, j) # ch
  ELSE 0

\* Every character of str is one of the characters of chars.
AllIn(str, chars) ==
  \A i \in 1..Len(str) : \E j \in 1..Len(chars) :
    CharAt(str, i) = CharAt(chars, j)

Digits == "0123456789"
SchemeChars == "abcdefghijklmnopqrstuvwxyz0123456789.+-"

\* The protocols url.parse expects "//" after.
SlashedProtocols == {"http:", "https:", "ftp:", "gopher:", "file:"}

\* url.parse(urlStr) of Node, for a URL without auth, query and hash: the
\* protocol up to the first ":", the host after "//" (or after the protocol,
\* when it is not one of the slashed ones) up to the next "/", its port the
\* digits after its last ":". A part the URL lacks is "" (null in Node).
urlParse(urlStr) ==
  LET i == FirstOf(urlStr, ":")
      proto == i > 1 /\ AllIn(SubSeq(urlStr, 1, i - 1), SchemeChars)
      protocol == IF proto THEN SubSeq(urlStr, 1, i) ELSE ""
      rest == IF proto THEN SubSeq(urlStr, i + 1, Len(urlStr)) ELSE urlStr
      slashes == proto /\ Len(rest) >= 2 /\ SubSeq(rest, 1, 2) = "//"
      rest2 == IF slashes THEN SubSeq(rest, 3, Len(rest)) ELSE rest
      hasHost == slashes \/ (proto /\ protocol \notin SlashedProtocols)
      e == FirstOf(rest2, "/")
      host == IF ~hasHost THEN ""
              ELSE IF e = 0 THEN rest2 ELSE SubSeq(rest2, 1, e - 1)
      c == LastOf(host, ":")
      hasPort == c > 0 /\ AllIn(SubSeq(host, c + 1, Len(host)), Digits)
  IN [ protocol |-> protocol,
       hostname |-> IF hasPort THEN SubSeq(host, 1, c - 1) ELSE host,
       port     |-> IF hasPort THEN SubSeq(host, c + 1, Len(host)) ELSE "" ]

\* JavaScript values: undefined, null, strings, numbers, and the objects
\* with the two properties of a ports object.
JsUndefined == [t |-> "undefined", v |-> ""]
JsNull == [t |-> "null", v |-> ""]
JsString(str) == [t |-> "string", v |-> str]
JsNumber(digits) == [t |-> "number", v |-> digits]
JsPorts(configApiUrl, ntlmProxyUrl) ==
  [t |-> "object", configApiUrl |-> configApiUrl, ntlmProxyUrl |-> ntlmProxyUrl]

\* !value of JavaScript.
Falsy(value) ==
  \/ value.t \in {"undefined", "null"}
  \/ value.t = "string" /\ value.v = ""
  \/ value.t = "number" /\ value.v = "0"

Quote == "\""

\* JSON.stringify of a property: none for undefined.
Member(key, value) ==
  IF value.t = "undefined" THEN <<>>
  ELSE IF value.t = "string"
  THEN << Quote \o key \o Quote \o ":" \o Quote \o value.v \o Quote >>
  ELSE << Quote \o key \o Quote \o ":" \o value.v >>

\* JSON.stringify(ports)
JSONstringify(ports) ==
  IF ports.t = "null" THEN "null"
  ELSE LET ms == Member("configApiUrl", ports.configApiUrl)
                   \o Member("ntlmProxyUrl", ports.ntlmProxyUrl)
       IN IF Len(ms) = 0 THEN "{}"
          ELSE IF Len(ms) = 1 THEN "{" \o ms[1] \o "}"
          ELSE "{" \o ms[1] \o "," \o ms[2] \o "}"

SyntaxError == [t |-> "SyntaxError", v |-> ""]

\* JSON.parse of a property value: a string in quotes or a number.
ParseJsValue(text) ==
  IF Len(text) >= 2 /\ CharAt(text, 1) = Quote
       /\ CharAt(text, Len(text)) = Quote
       /\ FirstOf(SubSeq(text, 2, Len(text) - 1), Quote) = 0
  THEN JsString(SubSeq(text, 2, Len(text) - 1))
  ELSE IF Len(text) >= 1 /\ AllIn(text, Digits) THEN JsNumber(text)
  ELSE SyntaxError

\* JSON.parse of "key":value
ParseMember(text) ==
  LET q == IF Len(text) >= 2 /\ CharAt(text, 1) = Quote
           THEN FirstOf(SubSeq(text, 2, Len(text)), Quote) ELSE 0
  IN IF q = 0 \/ Len(text) < q + 3 \/ CharAt(text, q + 2) # ":"
     THEN [key |-> "", value |-> SyntaxError]
     ELSE [ key |-> SubSeq(text, 2, q),
            value |-> ParseJsValue(SubSeq(text, q + 3, Len(text))) ]

\* The property key of the members parsed; a later member overrides.
Property(members, key) ==
  LET at == {i \in 1..Len(members) : members[i].key = key}
  IN IF at = {} THEN JsUndefined
     ELSE members[CHOOSE i \in at : \A j \in at : j <= i].value

\* JSON.parse(data), for the texts of flat objects and null: a SyntaxError
\* for every other text.
JSONparse(data) ==
  IF data = "null" THEN JsNull
  ELSE IF Len(data) < 2 \/ CharAt(data, 1) # "{"
            \/ CharAt(data, Len(data)) # "}"
  THEN SyntaxError
  ELSE LET inner == SubSeq(data, 2, Len(data) - 1)
           texts == Tokens(inner)
           members == [i \in 1..Len(texts) |-> ParseMember(texts[i])]
       IN IF Len(inner) > 0 /\ CharAt(inner, Len(inner)) = ","
          THEN SyntaxError
          ELSE IF \E i \in 1..Len(members) :
                    members[i].value = SyntaxError
          THEN SyntaxError
          ELSE JsPorts(Property(members, "configApiUrl"),
                       Property(members, "ntlmProxyUrl"))

\* The test of a URL in validatePortsFile; url.parse throws a TypeError for
\* an argument that is no string.
UrlComplete(value) ==
  LET urltest == urlParse(value.v)
  IN urltest.protocol # "" /\ urltest.hostname # "" /\ urltest.port # ""

\* validatePortsFile without its test of ntlmProxyUrl.
validatePortsFileFirstUrlOnly(ports) ==
  IF Falsy(ports) THEN "false"
  ELSE IF ports.t # "object" THEN "false"
  ELSE IF Falsy(ports.configApiUrl) \/ Falsy(ports.ntlmProxyUrl) THEN "false"
  ELSE IF ports.configApiUrl.t # "string" THEN "TypeError"
  ELSE IF ~UrlComplete(ports.configApiUrl) THEN "false"
  ELSE "true"

\* validatePortsFile(ports): "true", "false" or the TypeError of url.parse.
validatePortsFile(ports) ==
  IF Falsy(ports) THEN "false"
  ELSE IF ports.t # "object" THEN "false"
  ELSE IF Falsy(ports.configApiUrl) \/ Falsy(ports.ntlmProxyUrl) THEN "false"
  ELSE IF ports.configApiUrl.t # "string" THEN "TypeError"
  ELSE IF ~UrlComplete(ports.configApiUrl) THEN "false"
  ELSE IF ports.ntlmProxyUrl.t # "string" THEN "TypeError"
  ELSE IF ~UrlComplete(ports.ntlmProxyUrl) THEN "false"
  ELSE "true"

NoPorts == [t |-> "none", v |-> ""]
NoError == "none"

\* fs.existsSync(portsFile)
portsFileExists(file) == file # NoFile

\* parsePortsFile without its test for the file: readFileSync throws.
parsePortsFileNoExistsTest(file) ==
  IF file = NoFile THEN [ports |-> NoPorts, err |-> "ENOENT"]
  ELSE LET ports == JSONparse(file) IN
       IF ports = SyntaxError THEN [ports |-> NoPorts, err |-> "SyntaxError"]
       ELSE IF validatePortsFile(ports) = "true"
       THEN [ports |-> ports, err |-> NoError]
       ELSE IF validatePortsFile(ports) = "TypeError"
       THEN [ports |-> NoPorts, err |-> "TypeError"]
       ELSE [ports |-> NoPorts, err |-> "Cannot parse"]

\* parsePortsFile(callback): the arguments of the callback, or the error
\* thrown by validatePortsFile.
parsePortsFile(file) ==
  IF portsFileExists(file)
  THEN LET ports == JSONparse(file) IN
       IF ports = SyntaxError THEN [ports |-> NoPorts, err |-> "SyntaxError"]
       ELSE IF validatePortsFile(ports) = "true"
       THEN [ports |-> ports, err |-> NoError]
       ELSE IF validatePortsFile(ports) = "TypeError"
       THEN [ports |-> NoPorts, err |-> "TypeError"]
       ELSE [ports |-> NoPorts, err |-> "Cannot parse"]
  ELSE [ports |-> NoPorts, err |-> "proxy does not seem to be running"]

\* URLs the proxy may announce, and strings that lack a part of a URL.
Urls == { "http://127.0.0.1:5000", "http://localhost:5001",
          "http://localhost", "localhost:5000", "//127.0.0.1:5000",
          "http://:5000" }

\* The values a property of the ports object is given.
UrlValues ==
  {JsString(u) : u \in Urls} \cup {JsString(""), JsUndefined, JsNumber("5000")}

\* The ports savePortsFile is called with.
PortsValues ==
  {JsNull} \cup {JsPorts(c, n) : c \in UrlValues, n \in {JsString("http://localhost:5001"), JsString("http://localhost"), JsUndefined}}
           \cup {JsPorts(JsString("http://127.0.0.1:5000"), n) : n \in UrlValues}

\* What the file may hold when the plugin comes to it: nothing, or the text
\* some program has left there.
ForeignTexts == {"", "{", "{},", "[]", "{\"configApiUrl\":}"}

\* savePortsFile(ports, callback): fs.writeFile succeeds or fails.
SavePortsFile(ports, written) ==
  /\ portsFile' = IF written THEN JSONstringify(ports) ELSE portsFile
  /\ lastCall' = [ op |-> "savePortsFile", arg |-> ports, file |-> portsFile,
                   ports |-> NoPorts, exists |-> FALSE,
                   err |-> IF written THEN NoError ELSE "Cannot create" ]
  /\ UNCHANGED <<sockets, closeListeners, agentCount, connectionContexts,
                 contexts, creds, req, forced401, upstreamProxy, originCloses,
                 tunnels, targets, nodeTlsEnv, ntlmOrigins, facade>>

\* deletePortsFile(callback): fs.unlink fails when there is no file, and may
\* fail when there is one.
DeletePortsFile(unlinked) ==
  LET done == unlinked /\ portsFile # NoFile IN
  /\ portsFile' = IF done THEN NoFile ELSE portsFile
  /\ lastCall' = [ op |-> "deletePortsFile", arg |-> NoPorts,
                   file |-> portsFile, ports |-> NoPorts, exists |-> FALSE,
                   err |-> IF done THEN NoError ELSE "Cannot delete" ]
  /\ UNCHANGED <<sockets, closeListeners, agentCount, connectionContexts,
                 contexts, creds, req, forced401, upstreamProxy, originCloses,
                 tunnels, targets, nodeTlsEnv, ntlmOrigins, facade>>

PortsFileExists ==
  /\ lastCall' = [ op |-> "portsFileExists", arg |-> NoPorts,
                   file |-> portsFile, ports |-> NoPorts,
                   exists |-> portsFileExists(portsFile), err |-> NoError ]
  /\ UNCHANGED <<sockets, closeListeners, agentCount, connectionContexts,
                 contexts, creds, req, forced401, upstreamProxy, originCloses,
                 tunnels, targets, nodeTlsEnv, portsFile, ntlmOrigins, facade>>

ParsePortsFile ==
  /\ lastCall' = [ op |-> "parsePortsFile", arg |-> NoPorts,
                   file |-> portsFile,
                   ports |-> parsePortsFile(portsFile).ports,
                   exists |-> FALSE,
                   err |-> parsePortsFile(portsFile).err ]
  /\ UNCHANGED <<sockets, closeListeners, agentCount, connectionContexts,
                 contexts, creds, req, forced401, upstreamProxy, originCloses,
                 tunnels, targets, nodeTlsEnv, portsFile, ntlmOrigins, facade>>

InitPorts ==
  /\ InitManager
  /\ ntlmOrigins = {"ntlmhost"}
  /\ creds = [h \in Hosts |-> 0]
  /\ upstreamProxy = NoUpstreamProxy
  /\ nodeTlsEnv = "0"
  /\ portsFile \in {NoFile} \cup ForeignTexts

NextPorts ==
  \/ \E ports \in PortsValues, written \in BOOLEAN :
       SavePortsFile(ports, written)
  \/ \E unlinked \in BOOLEAN : DeletePortsFile(unlinked)
  \/ PortsFileExists
  \/ ParsePortsFile

SpecPorts == InitPorts /\ [][NextPorts]_vars

\* URLs with a scheme, a host and a port.
CompleteUrls == {"http://127.0.0.1:5000", "http://localhost:5001"}

\* A ports object with both URLs, each with scheme, host and port.
ValidPorts(ports) ==
  /\ ports.t = "object"
  /\ ports.configApiUrl.t = "string" /\ ports.configApiUrl.v \in CompleteUrls
  /\ ports.ntlmProxyUrl.t = "string" /\ ports.ntlmProxyUrl.v \in CompleteUrls

\* A URL property that lacks its scheme, its host or its port.
LacksPart(value) == value.t = "string" /\ value.v \notin CompleteUrls

\* The texts of a null object, of an object that lacks one of the two URLs,
\* and of an object with a URL without scheme, host or port.
NullOrIncomplete(file) ==
  \E ports \in PortsValues :
    /\ file = JSONstringify(ports)
    /\ \/ ports.t = "null"
       \/ /\ ports.t = "object"
          /\ \/ ports.configApiUrl.t = "undefined"
             \/ ports.ntlmProxyUrl.t = "undefined"
             \/ /\ LacksPart(ports.configApiUrl)
                /\ ports.ntlmProxyUrl.t \in {"string", "undefined"}
             \/ /\ ports.configApiUrl.t = "string"
                /\ LacksPart(ports.ntlmProxyUrl)

\* C24: parsePortsFile yields ports only when the file holds an object with
\* configApiUrl and ntlmProxyUrl, both URLs with scheme, host and port, and
\* then without error; for a missing file, a text that is no JSON, a null
\* or incomplete object and a URL that lacks scheme, host or port it yields
\* an error and no ports.
C24_ParseYieldsOnlyValidPorts ==
  lastCall.op = "parsePortsFile" =>
    /\ lastCall.ports # NoPorts =>
         /\ ValidPorts(lastCall.ports)
         /\ lastCall.err = NoError
         /\ lastCall.file = JSONstringify(lastCall.ports)
    /\ lastCall.ports = NoPorts => lastCall.err # NoError
    /\ (lastCall.file \in {NoFile} \cup ForeignTexts
          \/ NullOrIncomplete(lastCall.file)) =>
         /\ lastCall.ports = NoPorts
         /\ lastCall.err \in {"proxy does not seem to be running",
                              "SyntaxError", "Cannot parse"}

\* C24 witness: parsePortsFile has turned down a file whose configApiUrl is
\* complete and whose ntlmProxyUrl has no port.
C24_Witness ==
  /\ lastCall.op = "parsePortsFile"
  /\ lastCall.file = JSONstringify(JsPorts(JsString("http://127.0.0.1:5000"),
                                           JsString("http://localhost")))
  /\ lastCall.err = "Cannot parse"

\* C25: after a successful savePortsFile with valid ports the file exists
\* and parsePortsFile yields those ports; after a successful deletePortsFile
\* the file does not exist and parsePortsFile yields the error 'proxy does
\* not seem to be running'.
C25_FileExistsWhileProxyUp ==
  /\ [][ (lastCall'.op = "savePortsFile" /\ lastCall'.err = NoError
           /\ ValidPorts(lastCall'.arg)) =>
          /\ portsFileExists(portsFile')
          /\ parsePortsFile(portsFile')
               = [ports |-> lastCall'.arg, err |-> NoError] ]_vars
  /\ [][ (lastCall'.op = "deletePortsFile" /\ lastCall'.err = NoError) =>
          /\ ~portsFileExists(portsFile')
          /\ parsePortsFile(portsFile')
               = [ports |-> NoPorts,
                  err |-> "proxy does not seem to be running"] ]_vars
  /\ [][ (lastCall.op \in {"savePortsFile", "deletePortsFile"}
           /\ lastCall.err = NoError
           /\ lastCall'.op \in {"portsFileExists", "parsePortsFile"}) =>
          /\ lastCall'.exists = (lastCall.op = "savePortsFile"
                                  /\ lastCall'.op = "portsFileExists")
          /\ (lastCall'.op = "parsePortsFile" /\ lastCall.op = "deletePortsFile")
               => lastCall'.err = "proxy does not seem to be running"
          /\ (lastCall'.op = "parsePortsFile" /\ lastCall.op = "savePortsFile"
               /\ ValidPorts(lastCall.arg))
               => lastCall'.ports = lastCall.arg ]_vars

\* C25 witness: a file with valid ports, saved before, was deleted.
C25_Witness ==
  /\ lastCall.op = "deletePortsFile"
  /\ lastCall.err = NoError
  /\ lastCall.file # NoFile
  /\ ValidPorts(JSONparse(lastCall.file))
  /\ portsFile = NoFile

(* ------------------------------------------------------------------ *)
(* Certificate verification of the upstream agents                    *)
(* ------------------------------------------------------------------ *)

\* C28: the agent of getAgent has rejectUnauthorized = false exactly when
\* NODE_TLS_REJECT_UNAUTHORIZED is "0" or the target is localhost; with the
\* variable unset, empty, "1" or any other string and a target that is not
\* localhost, verification is enabled.
C28_VerificationOffOnlyOnZeroOrLocalhost ==
  lastCall.op = "getAgent" =>
    /\ ~lastCall.agent.options.rejectUnauthorized
         <=> (nodeTlsEnv = "0" \/ isLocalhost(lastCall.targetHost))
    /\ (nodeTlsEnv \in {Unset, "", "1", "true"}
          /\ ~isLocalhost(lastCall.targetHost))
         => lastCall.agent.options.rejectUnauthorized

\* C28 witness: getAgent was called for an SSL target that is not localhost
\* with NODE_TLS_REJECT_UNAUTHORIZED set to the empty string, and the agent
\* verifies certificates.
C28_Witness ==
  /\ lastCall.op = "getAgent"
  /\ lastCall.isSSL
  /\ nodeTlsEnv = ""
  /\ ~isLocalhost(lastCall.targetHost)
  /\ lastCall.agent.options.rejectUnauthorized

(* ------------------------------------------------------------------ *)
(* The agents of the tracked contexts                                 *)
(* ------------------------------------------------------------------ *)

AgentClasses == {"http.Agent", "https.Agent", "HttpProxyAgent", "HttpsProxyAgent"}

\* C26: the agent of every tracked context is a pool of exactly one
\* kept-alive socket, whichever of the four agent classes it is (plain or
\* SSL, direct or through the upstream proxy), and no two contexts hold the
\* same agent.
C26_OneSocketAgentPerContext ==
  /\ \A a \in Addrs : TrackedNow(a) =>
       /\ At(a).agent.class \in AgentClasses
       /\ At(a).agent.options.maxSockets = 1
       /\ At(a).agent.options.keepAlive
  /\ \A c, d \in CtxIds :
       (contexts[c].built /\ contexts[d].built /\ c # d) =>
         contexts[c].agent.id # contexts[d].agent.id
  /\ lastCall.op = "createConnectionContext" =>
       /\ lastCall.agent.options.maxSockets = 1
       /\ lastCall.agent.options.keepAlive
       /\ lastCall.created =>
            lastCall.agent.class =
              IF ViaProxy(lastCall.agent)
              THEN (IF lastCall.isSSL THEN "HttpsProxyAgent" ELSE "HttpProxyAgent")
              ELSE (IF lastCall.isSSL THEN "https.Agent" ELSE "http.Agent")

\* C26 witness: two contexts are tracked, one with an SSL agent through the
\* upstream proxy and one with a plain direct agent.
C26_Witness ==
  \E a, b \in Addrs :
    /\ TrackedNow(a) /\ TrackedNow(b)
    /\ At(a).agent.class = "HttpsProxyAgent"
    /\ At(b).agent.class = "http.Agent"
    /\ At(a).agent.id # At(b).agent.id

\* The other two classes of agent, tracked side by side.
C26_WitnessOtherClasses ==
  \E a, b \in Addrs :
    /\ TrackedNow(a) /\ TrackedNow(b)
    /\ At(a).agent.class = "https.Agent"
    /\ At(b).agent.class = "HttpProxyAgent"

\* C29: unless NODE_TLS_REJECT_UNAUTHORIZED is "0", every request to an SSL
\* target that is not localhost is sent with an agent that verifies
\* certificates, also on a connection whose context was created for a
\* localhost target.
C29_VerifiedUnlessLocalhost ==
  (lastCall.op = "createConnectionContext" /\ lastCall.isSSL
     /\ nodeTlsEnv # "0" /\ ~isLocalhost(lastCall.targetHost)) =>
    lastCall.agent.options.rejectUnauthorized

\* The same, for the request a connection's context is created for.
C29_VerifiedOnFirstRequest ==
  (lastCall.op = "createConnectionContext" /\ lastCall.isSSL
     /\ lastCall.created
     /\ nodeTlsEnv # "0" /\ ~isLocalhost(lastCall.targetHost)) =>
    lastCall.agent.options.rejectUnauthorized

\* C29 witness: with NODE_TLS_REJECT_UNAUTHORIZED unset, a request to an SSL
\* target that is not localhost got the agent of a context created before,
\* which does not verify certificates.
C29_Witness ==
  /\ lastCall.op = "createConnectionContext"
  /\ lastCall.isSSL /\ ~lastCall.created
  /\ nodeTlsEnv = Unset
  /\ lastCall.targetHost = "ntlm.acme.com"
  /\ lastCall.agent.class = "https.Agent"
  /\ ~lastCall.agent.options.rejectUnauthorized

(* ------------------------------------------------------------------ *)
(* Contexts and the close of their downstream socket                  *)
(* ------------------------------------------------------------------ *)

\* The context id was built for the downstream socket s.
ContextOf(id, s) == contexts[id].built /\ contexts[id].clientSocket = s

\* C30: when the downstream socket of a tracked context closes, the context
\* is destroyed, once, with its upstream sockets, and taken out of the
\* table, and the request in flight on the socket ends; this holds for
\* config-API contexts and for a context built on a socket whose earlier
\* context a reset removed. No context built for a socket that has closed is
\* tracked or was left undestroyed.
C30_CloseDestroysContext ==
  /\ [][ \A s \in Sockets : (Open(s) /\ ~Open(s)') =>
           /\ \A id \in TrackedIds(Mgr) : ContextOf(id, s) =>
                /\ contexts'[id].destroyCalls = 1
                /\ contexts'[id].destroyEvent = "close"
                /\ \A h \in Hosts : contexts'[id].upstream[h] = "none"
                /\ \A a \in Addrs : connectionContexts'[a] # id
           /\ closeListeners'[s] = {}
           /\ req'[s].phase = "idle" ]_vars
  /\ [](\A s \in Sockets, id \in CtxIds :
          (ContextOf(id, s) /\ ~Open(s)) =>
            /\ contexts[id].destroyCalls >= 1
            /\ id \notin TrackedIds(Mgr))

\* C30 witness: a reset removed the context of a socket, a later request
\* built another context on that socket, and the close of the socket has
\* destroyed it.
C30_Witness ==
  \E s \in Sockets, c, d \in CtxIds :
    /\ c # d /\ ContextOf(c, s) /\ ContextOf(d, s)
    /\ contexts[c].destroyEvent = "reset"
    /\ contexts[d].destroyEvent = "close" /\ contexts[d].destroyCalls = 1
    /\ sockets[s].state = "closed"

\* A config-API context that the close of its socket has destroyed.
C30_WitnessConfigApi ==
  \E id \in CtxIds :
    /\ contexts[id].configApiConnection
    /\ contexts[id].destroyEvent = "close"
    /\ sockets[contexts[id].clientSocket].state = "closed"

(* ------------------------------------------------------------------ *)
(* The core stops                                                     *)
(* ------------------------------------------------------------------ *)

\* C31 as stated: after the core has stopped no context is tracked and
\* undestroyed.
C31_NothingTrackedAfterStop ==
  [][ CoreStop => \A a \in Addrs :
        ~(connectionContexts'[a] # NoCtx
            /\ contexts'[connectionContexts'[a]].destroyCalls = 0) ]_vars

\* C31: after the core has stopped no context other than config-API
\* contexts is tracked and undestroyed: destroy was called, with the stop,
\* on every tracked context that is no config-API context, and those are
\* out of the table; the config-API contexts stay as they were.
C31_OnlyConfigContextsAfterStop ==
  [][ CoreStop =>
        /\ \A a \in Addrs : connectionContexts'[a] # NoCtx =>
             /\ contexts'[connectionContexts'[a]].configApiConnection
             /\ connectionContexts'[a] = connectionContexts[a]
             /\ contexts'[connectionContexts'[a]] = contexts[connectionContexts[a]]
        /\ \A a \in Addrs : (TrackedNow(a) /\ ~At(a).configApiConnection) =>
             /\ contexts'[connectionContexts[a]].destroyCalls = 1
             /\ contexts'[connectionContexts[a]].destroyEvent = "stop"
             /\ \A b \in Addrs : connectionContexts'[b] # connectionContexts[a]
      ]_vars

\* C31 witness: the core has stopped: one context was destroyed by the
\* stop, a config-API context is still tracked and was not destroyed.
C31_Witness ==
  /\ \E id \in CtxIds : contexts[id].destroyEvent = "stop"
  /\ \E a \in Addrs : /\ TrackedNow(a)
                      /\ At(a).configApiConnection
                      /\ At(a).destroyCalls = 0

(* ------------------------------------------------------------------ *)
(* destroy, the close listeners and the table                         *)
(* ------------------------------------------------------------------ *)

\* destroy is called on the context id in this step.
Destroyed(id) == contexts'[id].destroyCalls > contexts[id].destroyCalls

\* C32: over any interleaving of close events, removeAgent and
\* removeAllConnectionContexts destroy is called at most once on each
\* context, and the step that calls it leaves the close listener of the
\* context off its downstream socket and the context out of the table, so
\* that a close event after it finds nothing to clean up.
C32_DestroyedAtMostOnce ==
  /\ [](\A id \in CtxIds : contexts[id].destroyCalls <= 1)
  /\ [][ \A id \in CtxIds : Destroyed(id) =>
           /\ contexts[id].destroyCalls = 0
           /\ contexts'[id].destroyCalls = 1
           /\ \A s \in Sockets : id \notin closeListeners'[s]
           /\ \A a \in Addrs : connectionContexts'[a] # id ]_vars

\* C32 witness: the downstream socket of a context has closed after
\* removeAgent or removeAllConnectionContexts had destroyed the context, and
\* destroy was called on it once.
C32_Witness ==
  \E id \in CtxIds :
    /\ contexts[id].destroyEvent \in {"reset", "remove"}
    /\ contexts[id].destroyCalls = 1
    /\ sockets[contexts[id].clientSocket].state = "closed"

(* ------------------------------------------------------------------ *)
(* createConnectionContext on a tracked client address                *)
(* ------------------------------------------------------------------ *)

\* C33: a call of createConnectionContext on a client address that is
\* already tracked returns the context of the table and changes nothing:
\* no agent is made, _agentCount, the table, the contexts and the close
\* listeners stay as they were; the agent is the one of the first call,
\* whatever isSSL and the target of the later call are.
C33_TrackedAddressChangesNothing ==
  [][ \A s \in Sockets, isSSL \in BOOLEAN, targetHost \in AgentTargets :
        (CreateConnectionContextCall(s, isSSL, targetHost)
           /\ Tracked(Mgr, getClientAddress(s))) =>
          /\ lastCall'.ctx = connectionContexts[getClientAddress(s)]
          /\ lastCall'.agent = contexts[lastCall'.ctx].agent
          /\ agentCount' = agentCount
          /\ connectionContexts' = connectionContexts
          /\ contexts' = contexts
          /\ closeListeners' = closeListeners ]_vars

\* C33 witness: a call for an SSL target that is not localhost came back
\* with the context made for a plain localhost request, http.Agent and all.
C33_Witness ==
  /\ lastCall.op = "createConnectionContext"
  /\ ~lastCall.created
  /\ lastCall.isSSL
  /\ lastCall.targetHost = "ntlm.acme.com"
  /\ lastCall.agent.class = "http.Agent"
  /\ lastCall.agent.id < agentCount

(* ------------------------------------------------------------------ *)
(* getUntrackedAgent                                                  *)
(* ------------------------------------------------------------------ *)

\* A call of getUntrackedAgent for a request on the open socket s; the call
\* notes the agent it returned.
GetUntrackedAgent(s) ==
  /\ Open(s)
  /\ LET u == getUntrackedAgent(Mgr, s, Loopback[1])
     IN /\ u.m.agentCount <= MaxAgents
        /\ SetMgr(u.m)
        /\ lastCall' = [ op |-> "getUntrackedAgent", agent |-> u.agent ]
  /\ UNCHANGED <<sockets, creds, req, forced401, upstreamProxy, originCloses>>
  /\ UNCHANGED sideVars

NextUntracked ==
  \/ \E s \in Sockets, a \in Addrs : SocketAccept(s, a)
  \/ \E s \in Sockets : Connect(s)
  \/ \E s \in Sockets : RequestArrive(s, "plainhost")
  \/ \E s \in Sockets : UpstreamResponse(s)
  \/ \E s \in Sockets : GetUntrackedAgent(s)
  \/ \E s \in Sockets : SocketClose(s)
  \/ \E a \in Addrs : RemoveAgent(a)
  \/ Reset

SpecUntracked == Init /\ [][NextUntracked]_vars

\* C34: getUntrackedAgent leaves the table of contexts and the table of
\* tunnels as they were, and no later removeAllConnectionContexts,
\* removeAgent or close of a socket destroys a context that holds the agent
\* it returned.
C34_UntrackedAgentOutlivesCleanup ==
  /\ [][ \A s \in Sockets : GetUntrackedAgent(s) =>
           /\ connectionContexts' = connectionContexts
           /\ contexts' = contexts
           /\ closeListeners' = closeListeners
           /\ tunnels' = tunnels ]_vars
  /\ [](lastCall.op = "getUntrackedAgent" =>
          ~AgentDestroyed(lastCall.agent.id))

\* A context made after the agent of the last getUntrackedAgent has been
\* destroyed on the event e.
DestroyedAfterUntracked(e) ==
  /\ lastCall.op = "getUntrackedAgent"
  /\ \E id \in CtxIds : /\ contexts[id].destroyEvent = e
                         /\ contexts[id].agent.id > lastCall.agent.id

\* C34 witness: after getUntrackedAgent returned, a reset and the close of a
\* socket have each destroyed a context made since.
C34_Witness == DestroyedAfterUntracked("reset") /\ DestroyedAfterUntracked("close")

\* C34 witness: the same for removeAgent.
C34_WitnessRemoveAgent == DestroyedAfterUntracked("remove")

\* C34 witness: getUntrackedAgent was called with a tunnel and a context in
\* the tables.
C34_WitnessTables ==
  /\ lastCall.op = "getUntrackedAgent"
  /\ TunnelClients(tunnels) # {}
  /\ \E a \in Addrs : Tracked(Mgr, a)

(* ------------------------------------------------------------------ *)
(* Two NTLM origins on one downstream connection                      *)
(* ------------------------------------------------------------------ *)

\* Both origins are NTLM servers and both are configured, as in the tests
\* "two hosts from one socket".
InitTwoOrigins ==
  /\ InitManager
  /\ ntlmOrigins = Hosts
  /\ creds \in [Hosts -> Creds]
  /\ upstreamProxy = NoUpstreamProxy
  /\ nodeTlsEnv = "0"
  /\ portsFile = NoFile

NextTwoOrigins ==
  \/ \E s \in Sockets, a \in Addrs : SocketAccept(s, a)
  \/ \E s \in Sockets, h \in Hosts : RequestArrive(s, h)
  \/ \E s \in Sockets : UpstreamResponse(s)
  \/ \E s \in Sockets : SocketClose(s)

SpecTwoOrigins == InitTwoOrigins /\ [][NextTwoOrigins]_vars

\* The origin the step is about on socket s: the one of the request in
\* flight, or of the request that arrives.
HostOfStep(s) == IF req[s].phase # "idle" THEN req[s].host ELSE req'[s].host

\* What a context holds for origin g.
OriginState(c, g) ==
  <<c.handshakeState[g], c.upstream[g], c.upSock[g], c.type3Cred[g]>>

\* C35: with two NTLM-configured origins, a request on a downstream
\* connection to an origin that does not hold the connection authenticated
\* is answered 200 after a handshake of its own (3 upstream requests), and
\* no step of a request to one origin changes what the context of the
\* connection holds for the other origin.
C35_EachOriginItsOwnHandshake ==
  [][ \A s \in Sockets :
        /\ ClientAnswered(s) =>
             /\ req'[s].status = "200"
             /\ CtxAfter(s).handshakeState[req[s].host] = "Authenticated"
             /\ req[s].fresh => req'[s].upCount = 3 /\ req'[s].authSent
        /\ (Open(s) /\ Open(s)' /\ TrackedNow(getClientAddress(s))) =>
             \A g \in Hosts \ {HostOfStep(s)} :
               OriginState(contexts'[connectionContexts[getClientAddress(s)]], g)
                 = OriginState(At(getClientAddress(s)), g) ]_vars

\* C35 witness: one downstream connection, the only one there has been, is
\* authenticated to both origins, the last request answered 200 after its
\* 3 upstream requests.
C35_Witness ==
  \E s \in Sockets :
    /\ Open(s)
    /\ agentCount = 1
    /\ req[s].phase = "idle" /\ req[s].status = "200" /\ req[s].upCount = 3
    /\ TrackedNow(getClientAddress(s))
    /\ \A h \in Hosts :
         /\ At(getClientAddress(s)).handshakeState[h] = "Authenticated"
         /\ At(getClientAddress(s)).upstream[h] = "authed"

(* ------------------------------------------------------------------ *)
(* The close listeners                                                *)
(* ------------------------------------------------------------------ *)

\* The context id is in the table.
InTable(id) == \E a \in Addrs : connectionContexts[a] = id

\* C36: the close listener of a context is on a downstream socket exactly
\* when the context is tracked and that socket is its clientSocket, so a
\* tracked context has its listener on one socket, a socket carries the
\* listener of at most one context, and a context that removeAgent removed
\* or removeAllConnectionContexts destroyed has no listener on any socket.
C36_ListenerIffTracked ==
  /\ \A s \in Sockets, id \in CtxIds :
       id \in closeListeners[s] <=>
         (contexts[id].built /\ contexts[id].clientSocket = s /\ InTable(id))
  /\ \A s \in Sockets : Cardinality(closeListeners[s]) <= 1
  /\ \A id \in CtxIds : contexts[id].destroyCalls > 0 =>
       /\ ~InTable(id)
       /\ \A s \in Sockets : id \notin closeListeners[s]

\* C36 witness: the socket of a context removeAgent removed and the socket
\* of a context a reset destroyed are open and carry no listener, while a
\* third context is tracked.
C36_Witness ==
  /\ \A e \in {"remove", "reset"} :
       \E id \in CtxIds :
         /\ contexts[id].destroyEvent = e
         /\ Open(contexts[id].clientSocket)
         /\ closeListeners[contexts[id].clientSocket] = {}
  /\ \E id \in CtxIds : InTable(id)
(* ------------------------------------------------------------------ *)
(* The close event of a socket and a new socket from its address      *)
(* ------------------------------------------------------------------ *)

\* The socket is torn down: remoteAddress and remotePort are undefined from
\* here on, its "close" event is still to be emitted.
SocketDestroyed(s) ==
  /\ Open(s)
  /\ req[s].phase = "idle"
  /\ sockets' = [sockets EXCEPT ![s] = [state |-> "destroyed", remote |-> NoAddr]]
  /\ UNCHANGED <<closeListeners, agentCount, connectionContexts, contexts>>
  /\ UNCHANGED <<creds, req, forced401>>
  /\ UNCHANGED envVars

\* The "close" event of a torn down socket is emitted: its listeners run.
CloseEmitted(s) ==
  /\ sockets[s].state = "destroyed"
  /\ sockets' = [sockets EXCEPT ![s] = ClosedSocket]
  /\ SetMgr(afterClose(Mgr, s))
  /\ UNCHANGED <<creds, req, forced401>>
  /\ UNCHANGED envVars

\* Connections come and go, the close event of a socket after the socket;
\* createConnectionContext is called on the open ones.
NextCloseRace ==
  \/ \E s \in Sockets, a \in Addrs : SocketAccept(s, a)
  \/ \E s \in Sockets, isSSL \in BOOLEAN, targetHost \in AgentTargets :
       CreateConnectionContextCall(s, isSSL, targetHost)
  \/ \E s \in Sockets : SocketDestroyed(s)
  \/ \E s \in Sockets : CloseEmitted(s)

SpecCloseRace == InitAgents /\ [][NextCloseRace]_vars

\* The context the open socket s is served with: the one under its address.
Serving(s) == connectionContexts[getClientAddress(s)]

\* C37: the context createConnectionContext(s, ...) returns has
\* clientSocket = s, and the close event of a socket destroys no context
\* that serves another socket, which is open.
C37_ContextOfItsOwnSocket ==
  /\ [](lastCall.op = "createConnectionContext" =>
          contexts[lastCall.ctx].clientSocket = lastCall.socket)
  /\ [][ \A s \in Sockets : CloseEmitted(s) =>
           \A t \in Sockets \ {s} :
             (Open(t) /\ TrackedNow(getClientAddress(t))) =>
               contexts'[Serving(t)].destroyCalls
                 = contexts[Serving(t)].destroyCalls ]_vars

\* C37 witness: a socket was accepted from the address of a socket whose
\* close event is still to come, and createConnectionContext was called on it.
C37_Witness ==
  /\ lastCall.op = "createConnectionContext"
  /\ Open(lastCall.socket)
  /\ \E s \in Sockets \ {lastCall.socket} :
       /\ sockets[s].state = "destroyed"
       /\ \E id \in closeListeners[s] :
            contexts[id].clientAddress = getClientAddress(lastCall.socket)

(* ------------------------------------------------------------------ *)
(* Tunnels added under one client address                             *)
(* ------------------------------------------------------------------ *)

\* The "close" event of the torn down client socket of a tunnel: the
\* tunnel's handler ends the target side and calls removeTunnel, which
\* reads the address off the socket.
TunnelCloseEmitted(s) ==
  /\ sockets[s].state = "destroyed"
  /\ Tunneled(s)
  /\ sockets' = [sockets EXCEPT ![s] = ClosedSocket]
  /\ SetMgr(afterClose(Mgr, s))
  /\ targets' = [targets EXCEPT ![s] = "ended"]
  /\ tunnels' = removeTunnel(tunnels, s)
  /\ UNCHANGED <<creds, req, forced401>>
  /\ UNCHANGED <<upstreamProxy, originCloses, lastCall, portsFile, nodeTlsEnv,
                 ntlmOrigins, facade>>

\* Tunnels of client sockets that come and go, the close event of a socket
\* after the socket.
NextTunnelRace ==
  \/ \E s \in Sockets, a \in Addrs : SocketAccept(s, a)
  \/ \E s \in Sockets : Connect(s)
  \/ \E s \in Sockets : TargetClose(s)
  \/ \E s \in Sockets : SocketClose(s)
  \/ \E s \in Sockets : SocketDestroyed(s)
  \/ \E s \in Sockets : TunnelCloseEmitted(s)
  \/ \E s \in Sockets : ~Tunneled(s) /\ CloseEmitted(s)
  \/ Reset
  \/ RemoveAndCloseAllTunnels

SpecTunnelRace == Init /\ [][NextTunnelRace]_vars

\* C38: a target socket handed to addTunnel is in the table of tunnels for
\* as long as it is open, also where addTunnel is called again for the
\* address of its client, and removeAndCloseAllTunnels ends every target
\* socket that is open.
C38_NoOpenTargetUntracked ==
  /\ [](\A s \in Sockets : targets[s] = "open" => s \in TabledTunnels)
  /\ [][ (\A a \in Addrs : tunnels'[a] = NoTunnel /\ sockets' = sockets) =>
           \A s \in Sockets : targets'[s] # "open" ]_vars

\* C38 witness: addTunnel has been called for a client address that had a
\* tunnel in the table, whose target socket is open.
C38_Witness ==
  \E s \in Sockets : \E t \in Sockets \ {s} :
    /\ Open(t) /\ targets[t] = "open"
    /\ tunnels[getClientAddress(t)] = t
    /\ sockets[s].state = "destroyed" /\ targets[s] = "open"

(* ------------------------------------------------------------------ *)
(* HttpMitmProxyFacade: listen, its callback and close                *)
(* ------------------------------------------------------------------ *)

managerVars ==
  <<sockets, closeListeners, agentCount, connectionContexts, contexts,
    creds, req, forced401>>

facadeFrame ==
  <<upstreamProxy, originCloses, lastCall, tunnels, targets, portsFile,
    nodeTlsEnv, ntlmOrigins>>

\* listen(port) is called on a facade whose proxy is not running.
FacadeListen ==
  /\ facade.proxy = "closed"
  /\ ~facade.pending
  /\ facade' = listen(facade)
  /\ UNCHANGED <<managerVars, facadeFrame>>

\* The callback of _ntlmProxy.listen runs, with an error or without.
FacadeListenCallback(err) ==
  /\ facade.pending
  /\ facade' = listenCallback(facade, err)
  /\ UNCHANGED <<managerVars, facadeFrame>>

\* close() is called.
FacadeClose ==
  /\ facade' = close(facade)
  /\ UNCHANGED <<managerVars, facadeFrame>>

\* The facade is started and closed in any order; connections are accepted
\* while its proxy is open.
NextFacade ==
  \/ FacadeListen
  \/ \E err \in BOOLEAN : FacadeListenCallback(err)
  \/ FacadeClose
  \/ \E s \in Sockets, a \in Addrs : facade.proxy = "open" /\ SocketAccept(s, a)
  \/ \E s \in Sockets, isSSL \in BOOLEAN, targetHost \in AgentTargets :
       CreateConnectionContextCall(s, isSSL, targetHost)
  \/ \E s \in Sockets : SocketClose(s)

SpecFacade == Init /\ [][NextFacade]_vars

\* A call of close() that finds _ntlmProxyListening false calls
\* _ntlmProxy.close() zero times: before any successful listen, and when
\* close() is called again.
CloseOnlyWhenListening ==
  [][ (FacadeClose /\ ~facade.listening) =>
        /\ ~facade'.underlyingClose
        /\ facade'.proxy = facade.proxy ]_vars

\* C39: once close() has returned and the callback of listen has run, the
\* proxy is closed and _ntlmProxyListening is false, in whatever order
\* listen(), its callback and close() came; a close() that finds the proxy
\* not listening calls the underlying close zero times.
C39_ClosedAfterClose ==
  /\ []((facade.closeCalled /\ ~facade.pending) =>
          (facade.proxy = "closed" /\ ~facade.listening))
  /\ CloseOnlyWhenListening

\* C39 witness: close() was called while listen was under way, and the
\* callback of listen has run since.
C39_Witness ==
  /\ facade.closeCalled
  /\ ~facade.pending
  /\ ~facade.underlyingClose
  /\ facade.proxy = "open"

(* ------------------------------------------------------------------ *)
(* parsePortsFile and its callback                                    *)
(* ------------------------------------------------------------------ *)

\* The last call of parsePortsFile ended in the TypeError url.parse throws:
\* the error left validatePortsFile and parsePortsFile as an exception and
\* the callback was not called.
ParseThrew == lastCall.op = "parsePortsFile" /\ lastCall.err = "TypeError"

\* The callback of the last call of parsePortsFile got exactly one of ports
\* and error.
OneOfPortsAndError == (lastCall.ports # NoPorts) # (lastCall.err # NoError)

\* C40: every call of parsePortsFile calls its callback, once, with exactly
\* one of ports and error, whatever the ports file holds and whichever calls
\* of savePortsFile and deletePortsFile came before it.
C40_CallbackExactlyOnce ==
  lastCall.op = "parsePortsFile" => (~ParseThrew /\ OneOfPortsAndError)

\* Where parsePortsFile does not throw, its callback gets exactly one of
\* ports and error.
C40_OneOfPortsAndErrorUnlessThrown ==
  (lastCall.op = "parsePortsFile" /\ ~ParseThrew) => OneOfPortsAndError

\* C40 witness: parsePortsFile was called on a file savePortsFile wrote,
\* which holds a JSON object whose URL is a number.
C40_Witness ==
  /\ ParseThrew
  /\ JSONparse(lastCall.file) # SyntaxError
  /\ JSONparse(lastCall.file).t = "object"

==============================================================================
